---- MODULE Spec2Model ----
(***************************************************************************)
(* Via stitching / via fencing for KiCad: the candidate generators and the *)
(* collision resolver of                                                   *)
(*   via_stitch_action.py  StitcherDialog.perform_stitching  (tool "stitch")*)
(*   via_fence_action.py   FenceDialog.perform_fencing       (tool "fence") *)
(*   via-stitch.py         StitcherDialog.perform_stitching  (tool "old")   *)
(*   via_stitch.py         main                              (tool "cli")   *)
(* over the geometry helpers of stitching_utils.py.                        *)
(*                                                                         *)
(* Lengths are integers (nanometres in the code, from_mm(x)); a length the *)
(* code halves (via_size / 2.0, width / 2.0) is kept doubled, and a        *)
(* Euclidean distance is kept squared, so every comparison the code makes  *)
(* on floats is made here exactly on integers.                             *)
(***************************************************************************)
EXTENDS Integers, Sequences, FiniteSets, TLC

(***************************************************************************)
(* Vector2 (kipy.geometry): integer coordinates.                           *)
(***************************************************************************)
None == "None"

Abs(n) == IF n < 0 THEN -n ELSE n

Min2(a, b) == IF a < b THEN a ELSE b

Max2(a, b) == IF a > b THEN a ELSE b

Sign(n) == IF n < 0 THEN -1 ELSE IF n > 0 THEN 1 ELSE 0

\* int(n / d) for d # 0: Python's int() truncates towards zero.
Trunc(n, d) == Sign(n) * Sign(d) * (Abs(n) \div Abs(d))

Vec(x, y) == [x |-> x, y |-> y]

VAdd(a, b) == Vec(a.x + b.x, a.y + b.y)

VSub(a, b) == Vec(a.x - b.x, a.y - b.y)

\* Vector2.__mul__(scalar) with scalar = n / d: each coordinate is int(c * n / d).
VMulRat(v, n, d) == Vec(Trunc(v.x * n, d), Trunc(v.y * n, d))

\* Vector2.length() squared.
LenSq(v) == v.x * v.x + v.y * v.y

DistSq(a, b) == LenSq(VSub(a, b))

\* sqrt(dsq) < thr2 / 2, the shape of every "dist < threshold" test of the code
\* (dsq a squared distance, thr2 the doubled threshold).
DistLess(dsq, thr2) == thr2 > 0 /\ 4 * dsq < thr2 * thr2

\* sqrt(dsq) < s for an integer length s.
LenLess(dsq, s) == s > 0 /\ dsq < s * s

Inf == -1

\* min over squared distances, Inf (float('inf')) being larger than any.
MinD(a, b) == IF a = Inf THEN b ELSE IF b = Inf THEN a ELSE IF a < b THEN a ELSE b

\* dist < threshold where dist may be float('inf').
DLess(dsq, thr2) == dsq # Inf /\ DistLess(dsq, thr2)

(***************************************************************************)
(* stitching_utils.py                                                      *)
(***************************************************************************)
\* point_segment_distance(p, a, b), squared.  t is clamped to [0, 1]; the
\* projection a + ab * t is a Vector2, so its coordinates are truncated.
point_segment_distance(p, a, b) ==
    LET ab  == VSub(b, a)
        ap  == VSub(p, a)
        l2  == LenSq(ab)
        dot == ap.x * ab.x + ap.y * ab.y
    IN  IF l2 = 0 THEN LenSq(ap)
        ELSE LET projection ==
                    IF dot <= 0 THEN a
                    ELSE IF dot >= l2 THEN VAdd(a, ab)
                    ELSE VAdd(a, VMulRat(ab, dot, l2))
             IN  DistSq(p, projection)

\* A crossing test whose interval is closed below and open above.
RayCrossesClosedBelow(point, start, end) ==
    LET lo  == IF start.y < end.y THEN start.y ELSE end.y
        hi  == IF start.y < end.y THEN end.y ELSE start.y
        dy  == end.y - start.y
        num == (end.x - start.x) * (point.y - start.y)
    IN  /\ start.y # end.y
        /\ lo <= point.y
        /\ point.y < hi
        /\ IF dy > 0 THEN (point.x - start.x) * dy < num
                     ELSE (point.x - start.x) * dy > num

\* A crossing test whose interval is closed at both ends.
RayCrossesClosed(point, start, end) ==
    LET lo  == IF start.y < end.y THEN start.y ELSE end.y
        hi  == IF start.y < end.y THEN end.y ELSE start.y
        dy  == end.y - start.y
        num == (end.x - start.x) * (point.y - start.y)
    IN  /\ start.y # end.y
        /\ lo <= point.y
        /\ point.y <= hi
        /\ IF dy > 0 THEN (point.x - start.x) * dy < num
                     ELSE (point.x - start.x) * dy > num

\* One segment's contribution to the ray-casting count.
RayCrosses(point, start, end) ==
    LET lo  == IF start.y < end.y THEN start.y ELSE end.y
        hi  == IF start.y < end.y THEN end.y ELSE start.y
        dy  == end.y - start.y
        num == (end.x - start.x) * (point.y - start.y)
    IN  /\ start.y # end.y
        /\ lo < point.y
        /\ point.y <= hi
        \* point.x < num / dy + start.x
        /\ IF dy > 0 THEN (point.x - start.x) * dy < num
                     ELSE (point.x - start.x) * dy > num

\* is_point_inside_segments(point, segments): odd number of crossings.
is_point_inside_segments(point, segments) ==
    Cardinality({i \in 1..Len(segments) :
                    RayCrosses(point, segments[i][1], segments[i][2])}) % 2 = 1

\* arc.center() is None (the arc's three points are collinear).
ArcHasCenter(arc) == "center" \in DOMAIN arc

\* arc.angle() is None.
ArcHasAngle(arc) == "angle" \in DOMAIN arc

\* sin of a whole number of degrees 0..90, times 100000 (entry d + 1).
SineTable ==
    << 0, 1745, 3490, 5234, 6976, 8716, 10453, 12187, 13917, 15643, 17365, 19081, 20791,
       22495, 24192, 25882, 27564, 29237, 30902, 32557, 34202, 35837, 37461, 39073, 40674,
       42262, 43837, 45399, 46947, 48481, 50000, 51504, 52992, 54464, 55919, 57358, 58779,
       60182, 61566, 62932, 64279, 65606, 66913, 68200, 69466, 70711, 71934, 73135, 74314,
       75471, 76604, 77715, 78801, 79864, 80902, 81915, 82904, 83867, 84805, 85717, 86603,
       87462, 88295, 89101, 89879, 90631, 91355, 92050, 92718, 93358, 93969, 94552, 95106,
       95630, 96126, 96593, 97030, 97437, 97815, 98163, 98481, 98769, 99027, 99255, 99452,
       99619, 99756, 99863, 99939, 99985, 100000 >>

\* math.sin of d degrees, times 100000.
SinDeg(d) ==
    LET m == d % 360
    IN  IF m <= 90 THEN SineTable[m + 1]
        ELSE IF m <= 180 THEN SineTable[181 - m]
        ELSE IF m <= 270 THEN 0 - SineTable[m - 179]
        ELSE 0 - SineTable[361 - m]

\* math.sin of num / den degrees (den > 0), times 100000: the table value at
\* a whole degree, linear between two whole degrees.
SinRat(num, den) ==
    LET a   == num \div den
        rem == num - a * den
    IN  (SinDeg(a) * (den - rem) + SinDeg(a + 1) * rem) \div den

\* math.cos of num / den degrees, times 100000.
CosRat(num, den) == SinRat(num + 90 * den, den)

\* A node of a PolyLine is a point, or an arc: a record with a start point
\* and, when the arc has them, a centre, a radius, a start angle and a sweep
\* angle (both in whole degrees).
IsArcNode(node) == "start" \in DOMAIN node

\* A tessellation that allows a single step.
NumStepsOne(arc) == Max2(1, Abs(arc.angle) \div 10)

\* Line 39: num_steps = max(2, int(abs(arc_angle_val) / (math.pi / 18)))
num_steps(arc) == Max2(2, Abs(arc.angle) \div 10)

\* Lines 40-45: the point of step i of n, at start_angle + (arc_angle_val * i) / n.
ArcPoint(arc, i, n) ==
    LET num == arc.start_angle * n + arc.angle * i
    IN  Vec(Trunc(arc.center.x * 100000 + arc.radius * CosRat(num, n), 100000),
            Trunc(arc.center.y * 100000 + arc.radius * SinRat(num, n), 100000))

\* Lines 23-45: the points an arc node adds.
ArcNodePoints(arc) ==
    IF ~ArcHasCenter(arc) THEN <<arc.start>>
    ELSE IF ~(ArcHasAngle(arc) /\ "start_angle" \in DOMAIN arc) THEN <<arc.start>>
    ELSE [k \in 1..(num_steps(arc) + 1) |-> ArcPoint(arc, k - 1, num_steps(arc))]

RECURSIVE NodePoints(_, _)
\* Lines 19-45: the points of the nodes from node k on.
NodePoints(nodes, k) ==
    IF k > Len(nodes) THEN <<>>
    ELSE (IF IsArcNode(nodes[k]) THEN ArcNodePoints(nodes[k]) ELSE <<nodes[k]>>)
         \o NodePoints(nodes, k + 1)

\* get_polygon_segments(poly): consecutive points joined, plus the closing
\* segment when poly.closed.
get_polygon_segments(poly) ==
    LET points == NodePoints(poly.nodes, 1)
        n      == Len(points)
    IN  IF n < 2 THEN <<>>
        ELSE [i \in 1..(n - 1) |-> <<points[i], points[i + 1]>>]
             \o (IF poly.closed THEN <<(<<points[n], points[1]>>)>> ELSE <<>>)

\* A containment test that looks at the outline only.
InsideOutlineOnly(point, pwh) ==
    is_point_inside_segments(point, get_polygon_segments(pwh.outline))

\* is_point_inside_polygon_with_holes(point, poly_with_holes)
is_point_inside_polygon_with_holes(point, pwh) ==
    /\ is_point_inside_segments(point, get_polygon_segments(pwh.outline))
    /\ \A h \in 1..Len(pwh.holes) :
          ~is_point_inside_segments(point, get_polygon_segments(pwh.holes[h]))

RECURSIVE MinSegDist(_, _, _)
\* min(point_segment_distance(p, s, e) for s, e in segments, default=inf)
MinSegDist(p, segments, k) ==
    IF k > Len(segments) THEN Inf
    ELSE MinD(point_segment_distance(p, segments[k][1], segments[k][2]),
              MinSegDist(p, segments, k + 1))

RECURSIVE HolesDist(_, _, _)
HolesDist(p, holes, k) ==
    IF k > Len(holes) THEN Inf
    ELSE MinD(MinSegDist(p, get_polygon_segments(holes[k]), 1),
              HolesDist(p, holes, k + 1))

\* point_polygon_distance(p, poly), squared: outline and every hole.
point_polygon_distance(p, poly) ==
    MinD(MinSegDist(p, get_polygon_segments(poly.outline), 1),
         HolesDist(p, poly.holes, 1))

Cross(u, v) == u.x * v.y - u.y * v.x

Dot(u, v) == u.x * v.x + u.y * v.y

\* math.sqrt of a whole square (Vector2.length() of a vector of whole length).
ISqrt(n) == CHOOSE r \in 0..n : r * r = n

\* The direction Vector2.angle() = atan2(y, x) measures: atan2(0, 0) is 0,
\* the angle of (1, 0).
AngleDir(v) == IF v = Vec(0, 0) THEN Vec(1, 0) ELSE v

\* An angle: the counter-clockwise turn from direction `from` to direction
\* `to`, in [0, 2 pi), negated when neg.
Turn(from, to, neg) == [from |-> from, to |-> to, neg |-> neg]

\* The turn is pi or more.
UpperTurn(a) ==
    Cross(a.from, a.to) < 0 \/ (Cross(a.from, a.to) = 0 /\ Dot(a.from, a.to) < 0)

\* cos(a) <= cos(b), cos = Dot / sqrt(LenSq(from) * LenSq(to)).
CosLE(a, b) ==
    LET x  == Dot(a.from, a.to)
        y  == Dot(b.from, b.to)
        na == LenSq(a.from) * LenSq(a.to)
        nb == LenSq(b.from) * LenSq(b.to)
    IN  IF x <= 0 /\ y >= 0 THEN TRUE
        ELSE IF x >= 0 /\ y <= 0 THEN FALSE
        ELSE IF x > 0 THEN x * x * nb <= y * y * na
        ELSE x * x * nb >= y * y * na

\* a <= b for a turn a that is not negated.
AngleLE(a, b) ==
    /\ ~b.neg
    /\ IF UpperTurn(a) # UpperTurn(b) THEN UpperTurn(b)
       ELSE IF UpperTurn(a) THEN CosLE(a, b)
       ELSE CosLE(b, a)

\* point_arc_distance(p, arc), squared.  delta_angle is the turn from the
\* start direction to the point's direction, so 0 <= delta_angle always holds.
point_arc_distance(p, arc) ==
    IF ~ArcHasCenter(arc) THEN point_segment_distance(p, arc.start, arc.end)
    ELSE LET cp             == VSub(p, arc.center)
             dist_to_center == ISqrt(LenSq(cp))
             delta_angle    == Turn(AngleDir(VSub(arc.start, arc.center)), AngleDir(cp), FALSE)
         IN  IF ~ArcHasAngle(arc) THEN point_segment_distance(p, arc.start, arc.end)
             ELSE IF AngleLE(delta_angle, arc.angle)
             THEN (dist_to_center - arc.radius) * (dist_to_center - arc.radius)
             ELSE Min2(DistSq(p, arc.start), DistSq(p, arc.end))

(***************************************************************************)
(* Box2 (kipy.geometry) and the board snapshot.                            *)
(***************************************************************************)
Box(x, y, w, h) == [has |-> TRUE, pos |-> Vec(x, y), size |-> Vec(w, h)]

\* board.get_item_bounding_box(...) returning None.
NoBox == [has |-> FALSE, pos |-> Vec(0, 0), size |-> Vec(0, 0)]

\* Box2.center(): pos + size * 0.5, a Vector2.
BoxCenter(b) == VAdd(b.pos, VMulRat(b.size, 1, 2))

\* Box2.merge(other): the smallest box holding both.
BoxMerge(a, b) ==
    LET x0 == Min2(a.pos.x, b.pos.x)
        y0 == Min2(a.pos.y, b.pos.y)
        x1 == Max2(a.pos.x + a.size.x, b.pos.x + b.size.x)
        y1 == Max2(a.pos.y + a.size.y, b.pos.y + b.size.y)
    IN  Box(x0, y0, x1 - x0, y1 - y0)

SetMin(S) == CHOOSE m \in S : \A n \in S : m <= n

SetMax(S) == CHOOSE m \in S : \A n \in S : m >= n

\* PolygonWithHoles.bounding_box(): the box of the outline's points.
PolyBBox(pwh) ==
    LET pts == pwh.outline.nodes
        xs  == {pts[i].x : i \in 1..Len(pts)}
        ys  == {pts[i].y : i \in 1..Len(pts)}
    IN  IF Len(pts) = 0 THEN NoBox
        ELSE Box(SetMin(xs), SetMin(ys), SetMax(xs) - SetMin(xs), SetMax(ys) - SetMin(ys))

PolyLine(nodes, closed) == [nodes |-> nodes, closed |-> closed]

PolygonWithHoles(outline, holes) == [outline |-> outline, holes |-> holes]

RectLine(x0, y0, x1, y1) ==
    PolyLine(<<Vec(x0, y0), Vec(x1, y0), Vec(x1, y1), Vec(x0, y1)>>, TRUE)

EmptyPoly == PolygonWithHoles(PolyLine(<<>>, FALSE), <<>>)

\* A BoardShape: bbox is what board.get_item_bounding_box(shape) answers.
Shape(type, layer, bbox, poly, a, b) ==
    [type |-> type, layer |-> layer, bbox |-> bbox, poly |-> poly,
     start |-> a, end |-> b]

RectShape ==
    Shape("BoardRectangle", "Edge.Cuts", Box(0, 0, 5, 5), EmptyPoly, Vec(0, 0), Vec(5, 5))

NoBoxShape ==
    Shape("BoardRectangle", "Edge.Cuts", NoBox, EmptyPoly, Vec(0, 0), Vec(0, 0))

SilkShape ==
    Shape("BoardRectangle", "F.SilkS", Box(1, 1, 2, 2), EmptyPoly, Vec(1, 1), Vec(3, 3))

\* An L-shaped outline: the square 0..5 without the notch 3..5 x 3..5.
LPoly ==
    PolygonWithHoles(
        PolyLine(<<Vec(0, 0), Vec(5, 0), Vec(5, 3), Vec(3, 3), Vec(3, 5), Vec(0, 5)>>, TRUE),
        <<>>)

LShape == Shape("BoardPolygon", "Edge.Cuts", Box(0, 0, 5, 5), LPoly, Vec(0, 0), Vec(0, 0))

SegShape(a, b) ==
    Shape("BoardSegment", "Edge.Cuts",
          Box(Min2(a.x, b.x), Min2(a.y, b.y), Abs(a.x - b.x), Abs(a.y - b.y)),
          EmptyPoly, a, b)

SegOutline ==
    << SegShape(Vec(0, 0), Vec(5, 0)), SegShape(Vec(5, 0), Vec(5, 5)),
       SegShape(Vec(5, 5), Vec(0, 5)), SegShape(Vec(0, 5), Vec(0, 0)) >>

\* board.get_shapes() of the snapshots.
Outlines ==
    { <<>>, <<SilkShape>>, <<RectShape>>, <<NoBoxShape>>, <<LShape>>, SegOutline }

\* A Zone; filled_polygons is the dict layer -> [PolygonWithHoles] in its order.
Zone(name, filled, filled_polygons, layers, net, outline) ==
    [name |-> name, filled |-> filled, filled_polygons |-> filled_polygons,
     layers |-> layers, net |-> net, outline |-> outline]

\* The square 0..5 with the hole 1..3 x 1..3.
HolePoly == PolygonWithHoles(RectLine(0, 0, 5, 5), <<RectLine(1, 1, 3, 3)>>)

\* The strip 3..5 x 0..5.
StripPoly == PolygonWithHoles(RectLine(3, 0, 5, 5), <<>>)

ZoneA ==
    Zone("A", TRUE,
         << [layer |-> "F.Cu", polys |-> <<HolePoly>>],
            [layer |-> "In1.Cu", polys |-> <<StripPoly>>] >>,
         {"F.Cu", "In1.Cu"}, "GND", PolygonWithHoles(RectLine(0, 0, 5, 5), <<>>))

ZoneU ==
    Zone("U", FALSE, <<>>, {"F.Cu"}, "GND", PolygonWithHoles(RectLine(0, 0, 5, 5), <<>>))

NoZone == Zone("", FALSE, <<>>, {}, None, EmptyPoly)

\* self.selected_zones of the snapshots.
ZoneSelections == { <<>>, <<ZoneA>>, <<ZoneU>>, <<ZoneU, ZoneA>> }

\* A board item the resolver meets as an obstacle.  net is the item's net
\* name ("" for an unconnected item, None when the item has no net
\* attribute); layer is item.layer (None when absent), layers is
\* item.padstack.layers; w is diameter (Via) or width (Track, ArcTrack);
\* size is the size of the Pad's copper layers, has_cu whether it has any on
\* F.Cu or B.Cu.
Item(id, type, net, layer, layers, a, b, w, size, has_cu) ==
    [id |-> id, type |-> type, net |-> net, layer |-> layer, layers |-> layers,
     position |-> a, start |-> a, end |-> b, w |-> w, size |-> size, has_cu |-> has_cu]

ViaItem(id, net, pos, diameter) ==
    Item(id, "Via", net, None, {"F.Cu", "B.Cu"}, pos, pos, diameter, Vec(0, 0), FALSE)

PadItem(id, net, pos, size, layers) ==
    Item(id, "Pad", net, None, layers, pos, pos, 0, size,
         layers \cap {"F.Cu", "B.Cu"} # {})

TrackItem(id, net, layer, a, b, width) ==
    Item(id, "Track", net, layer, {}, a, b, width, Vec(0, 0), FALSE)

\* An ArcTrack whose start, mid and end are collinear (no centre).
FlatArcItem(id, net, layer, a, b, width) ==
    Item(id, "ArcTrack", net, layer, {}, a, b, width, Vec(0, 0), FALSE)

\* A selected graphic line: no net, no width.
SegmentItem(id, layer, a, b) ==
    Item(id, "BoardSegment", None, layer, {}, a, b, 0, Vec(0, 0), FALSE)

\* board.get_items(...) of the snapshots.
ItemLists ==
    { <<>>,
      << ViaItem(1, "GND", Vec(2, 2), 2) >>,
      << ViaItem(1, "", Vec(2, 2), 2), TrackItem(2, "SIG", "F.Cu", Vec(4, 1), Vec(4, 4), 2) >>,
      << FlatArcItem(1, "SIG", "F.Cu", Vec(1, 4), Vec(3, 4), 0) >>,
      << PadItem(1, "GND", Vec(4, 4), Vec(2, 1), {"F.Cu", "B.Cu"}),
         TrackItem(2, "", "B.Cu", Vec(0, 2), Vec(5, 2), 0),
         PadItem(3, "SIG", Vec(2, 4), Vec(4, 4), {}) >> }

\* A netclass: the nets in it and its via dimensions.
NetClasses ==
    [ Default |-> [nets |-> <<"GND", "SIG">>, via_diameter |-> 2, via_drill |-> 1],
      Bad     |-> [nets |-> <<"AUX">>, via_diameter |-> 0, via_drill |-> 0],
      Missing |-> [nets |-> <<>>, via_diameter |-> 0, via_drill |-> 0] ]

\* board.get_nets(): the names.
BoardNets == {"GND", "SIG", "AUX"}

(***************************************************************************)
(* get_enclosing_bbox (stitching_utils.py)                                 *)
(***************************************************************************)
RECURSIVE FlatPolys(_, _)
\* The polygons of zone.filled_polygons, layer after layer.
FlatPolys(fp, k) ==
    IF k > Len(fp) THEN <<>> ELSE fp[k].polys \o FlatPolys(fp, k + 1)

RECURSIVE ZoneBBoxes(_, _)
\* A filled Zone contributes the box of each filled polygon, any other Zone the
\* box of its outline.
ZoneBBoxes(zones, k) ==
    IF k > Len(zones) THEN <<>>
    ELSE LET z     == zones[k]
             polys == FlatPolys(z.filled_polygons, 1)
         IN  (IF z.filled /\ Len(z.filled_polygons) > 0
                 THEN [i \in 1..Len(polys) |-> PolyBBox(polys[i])]
                 ELSE <<PolyBBox(z.outline)>>)
             \o ZoneBBoxes(zones, k + 1)

RECURSIVE ShapeBBoxes(_, _)
\* A BoardPolygon contributes the box of polygons[0], any other shape the box
\* the board reports for it, if any.
ShapeBBoxes(shapes, k) ==
    IF k > Len(shapes) THEN <<>>
    ELSE LET sh == shapes[k]
         IN  (IF sh.type = "BoardPolygon" THEN <<PolyBBox(sh.poly)>>
              ELSE IF sh.bbox.has THEN <<sh.bbox>> ELSE <<>>)
             \o ShapeBBoxes(shapes, k + 1)

RECURSIVE MergeAll(_, _, _)
MergeAll(acc, bboxes, k) ==
    IF k > Len(bboxes) THEN acc ELSE MergeAll(BoxMerge(acc, bboxes[k]), bboxes, k + 1)

\* get_enclosing_bbox, given the boxes collected from the shapes.
get_enclosing_bbox(bboxes) ==
    IF Len(bboxes) = 0 THEN NoBox ELSE MergeAll(bboxes[1], bboxes, 2)

(***************************************************************************)
(* The run: one dialog (or the command-line script) over one board         *)
(* snapshot.                                                               *)
(***************************************************************************)
VARIABLES
    tool,                \* which entry point this run is
    debug_mode,          \* self.debug_mode (--debug)
    board,               \* the board snapshot and the dialog's selection
    params,              \* the params dict of the current run
    pc,                  \* "idle", "generate", "filter", "finish", "done", "error"
    ctx,                 \* the locals computed before candidate generation
    gi, gj,              \* the grid loops' row and column index
    candidate_positions, \* the candidates generated so far
    ci,                  \* index of the next candidate the resolver examines
    validated_points,    \* the accepted points (validated_points / valid_vias)
    items_to_create,     \* the items collected for board.create_items
    verdicts,            \* per examined candidate, the resolver's error_reason
    calls,               \* the board API calls made, in order
    result,              \* what the entry point returned or raised
    coords,              \* y_coords and x_coords of the command-line script
    current,             \* current_y / current_x of its tiling loops
    previous             \* the accepted list of an earlier run on this snapshot

vars == << tool, debug_mode, board, params, pc, ctx, gi, gj, candidate_positions,
           ci, validated_points, items_to_create, verdicts, calls, result,
           coords, current, previous >>

NoResult == [kind |-> "none", count |-> 0, etype |-> "", msg |-> ""]

Returned(n) == [kind |-> "count", count |-> n, etype |-> "", msg |-> ""]

Raised(etype, msg) == [kind |-> "error", count |-> 0, etype |-> etype, msg |-> msg]

NoParams == [none |-> TRUE]

NoCtx == [none |-> TRUE]

(***************************************************************************)
(* perform_stitching (via_stitch_action.py), up to candidate generation.   *)
(***************************************************************************)
\* Lines 193-202: the via size, manual or from the netclass.
Sizing(p) ==
    IF p.manual
    THEN [err |-> "", via_size |-> p.via_size, drill_size |-> p.drill_size]
    ELSE IF p.netclass_name = ""
    THEN [err |-> "No netclass selected.", via_size |-> 0, drill_size |-> 0]
    ELSE LET nc == NetClasses[p.netclass_name]
         IN  IF Len(nc.nets) = 0
             THEN [err |-> "Netclass '" \o p.netclass_name \o "' not found.", via_size |-> 0, drill_size |-> 0]
             ELSE IF nc.via_diameter = 0 \/ nc.via_drill = 0
             THEN [err |-> "Netclass '" \o p.netclass_name \o "' has invalid via dimensions.",
                   via_size |-> 0, drill_size |-> 0]
             ELSE [err |-> "", via_size |-> nc.via_diameter, drill_size |-> nc.via_drill]

RECURSIVE ZoneAreas(_, _)
\* Lines 218-224: one stitch area per filled polygon of each filled zone.
ZoneAreas(zones, k) ==
    IF k > Len(zones) THEN <<>>
    ELSE LET z     == zones[k]
             polys == FlatPolys(z.filled_polygons, 1)
         IN  (IF ~z.filled THEN <<>>
              ELSE [i \in 1..Len(polys) |-> [poly |-> polys[i], zone |-> z]])
             \o ZoneAreas(zones, k + 1)

\* An outline filter that takes the shapes of every layer.
AnyLayer(sh) == TRUE

\* Line 227: s.layer == BoardLayer.BL_Edge_Cuts.
IsEdgeCuts(sh) == sh.layer = "Edge.Cuts"

\* Lines 232-241: the bounding box as a closed four-node polygon.
BBoxPoly(bbox) ==
    PolygonWithHoles(
        RectLine(bbox.pos.x, bbox.pos.y,
                 bbox.pos.x + bbox.size.x, bbox.pos.y + bbox.size.y),
        <<>>)

\* Lines 216-243: the stitch areas and the bounding box, or the error raised.
StitchRegion(b, p) ==
    IF p.stitch_selection_only /\ Len(b.selected_zones) > 0
    THEN LET areas == ZoneAreas(b.selected_zones, 1)
             bbox  == get_enclosing_bbox(ZoneBBoxes(b.selected_zones, 1))
         IN  IF Len(areas) = 0
             THEN [err |-> "Selected zones have no filled areas to stitch.",
                   areas |-> <<>>, bbox |-> NoBox]
             ELSE IF ~bbox.has
             THEN [err |-> "Could not determine board bounding box.",
                   areas |-> areas, bbox |-> bbox]
             ELSE [err |-> "", areas |-> areas, bbox |-> bbox]
    ELSE LET outline_shapes == SelectSeq(b.shapes, IsEdgeCuts)
             bbox           == get_enclosing_bbox(ShapeBBoxes(outline_shapes, 1))
         IN  IF Len(outline_shapes) = 0
             THEN [err |-> "No valid board outline found.", areas |-> <<>>, bbox |-> NoBox]
             ELSE IF ~bbox.has
             THEN [err |-> "Could not determine board bounding box.",
                   areas |-> <<>>, bbox |-> bbox]
             ELSE [err |-> "", bbox |-> bbox,
                   areas |-> << [poly |-> BBoxPoly(bbox), zone |-> NoZone] >>]

\* Line 246: the net named net_name among the board's nets, if any.
TargetNet(p) == IF p.net_name # None /\ p.net_name \in BoardNets THEN p.net_name ELSE None

\* Lines 248-251: every pad, via, track and arc of the board, with its net.
StitchObstacles(b) ==
    [i \in 1..Len(b.items) |->
        [item |-> b.items[i], net |-> b.items[i].net, type |-> b.items[i].type]]

\* Lines 204-206: spacing must be positive.
SpacingOk(spacing) == spacing > 0

\* A half count taken over the whole extent instead of half of it.
HalfCountWhole(extent, spacing) == IF spacing > 0 THEN Trunc(extent, spacing) ELSE 0

\* Lines 256-257: int(extent / (2.0 * spacing)) if spacing > 0 else 0.
HalfCount(extent, spacing) == IF spacing > 0 THEN Trunc(extent, 2 * spacing) ELSE 0

\* Everything perform_stitching computes before its grid loops; err is the
\* message of the exception raised on the way, "" when none is.
StitchSetup(b, p) ==
    LET sz     == Sizing(p)
        region == StitchRegion(b, p)
    IN  IF sz.err # "" THEN [err |-> sz.err, etype |-> "Exception", ctx |-> NoCtx]
        ELSE IF ~SpacingOk(p.spacing)
        THEN [err |-> "Spacing must be a positive value.", etype |-> "ValueError",
              ctx |-> NoCtx]
        ELSE IF region.err # "" THEN [err |-> region.err, etype |-> "Exception", ctx |-> NoCtx]
        ELSE [err |-> "", etype |-> "",
              ctx |-> [via_size        |-> sz.via_size,
                       drill_size      |-> sz.drill_size,
                       spacing         |-> p.spacing,
                       edge_clearance  |-> p.edge_clearance,
                       clearance       |-> p.clearance,
                       row_offset      |-> p.row_offset,
                       random_variance |-> p.random_variance,
                       max_x_variance  |-> p.max_x_variance,
                       max_y_variance  |-> p.max_y_variance,
                       layers_only     |-> p.stitch_layers_only,
                       stitch_areas    |-> region.areas,
                       bbox            |-> region.bbox,
                       center          |-> BoxCenter(region.bbox),
                       half_cols       |-> HalfCount(region.bbox.size.x, p.spacing),
                       half_rows       |-> HalfCount(region.bbox.size.y, p.spacing),
                       target_net      |-> TargetNet(p),
                       obstacles       |-> StitchObstacles(b)]]

(***************************************************************************)
(* The grid generator of perform_stitching (lines 254-276).                *)
(***************************************************************************)
\* A jitter that ignores the random_variance switch.
JitterAlways(random_variance, m) == (0 - Abs(m))..Abs(m)

\* random.uniform(-m, m) added to an integer and passed through int(): any
\* integer offset of magnitude at most m; 0 when random_variance is off.
Jitter(random_variance, m) == IF random_variance THEN (0 - Abs(m))..Abs(m) ELSE {0}

\* A grid that takes its outer loop index for the column and its inner one
\* for the row.
GridPointColumnMajor(c, i, j, jx, jy) ==
    LET row_x_offset == IF j % 2 # 0 THEN c.row_offset ELSE 0
    IN  Vec(c.center.x + i * c.spacing + row_x_offset + jx,
            c.center.y + j * c.spacing + jy)

\* Lines 259-266: the raw grid point of row i, column j, with jitter (jx, jy).
GridPoint(c, i, j, jx, jy) ==
    LET row_x_offset == IF i % 2 # 0 THEN c.row_offset ELSE 0
    IN  Vec(c.center.x + j * c.spacing + row_x_offset + jx,
            c.center.y + i * c.spacing + jy)

\* An edge test that keeps the via's diameter, not its radius, off the boundary.
AreaAcceptsDiameter(pos, area, c) ==
    /\ is_point_inside_polygon_with_holes(pos, area.poly)
    /\ ~DLess(point_polygon_distance(pos, area.poly), 2 * c.via_size + 2 * c.edge_clearance)

\* Lines 269-270: the point is inside the area and far enough from its boundary.
AreaAccepts(pos, area, c) ==
    /\ is_point_inside_polygon_with_holes(pos, area.poly)
    /\ ~DLess(point_polygon_distance(pos, area.poly), c.via_size + 2 * c.edge_clearance)

RECURSIVE FirstArea(_, _, _, _)
\* Lines 268-272: the index of the first area that takes the point, 0 if none.
FirstArea(pos, areas, c, k) ==
    IF k > Len(areas) THEN 0
    ELSE IF AreaAccepts(pos, areas[k], c) THEN k
    ELSE FirstArea(pos, areas, c, k + 1)

\* A loop over the areas that does not stop at the first one that takes the
\* point.
StitchCandidateEveryArea(pos, c) ==
    LET Takes(area) == AreaAccepts(pos, area, c)
        taking == SelectSeq(c.stitch_areas, Takes)
    IN  [k \in 1..Len(taking) |-> [pos |-> pos, zone |-> taking[k].zone]]

\* Lines 268-272: the candidates a raw point adds (one at most).
StitchCandidate(pos, c) ==
    LET k == FirstArea(pos, c.stitch_areas, c, 1)
    IN  IF k = 0 THEN <<>> ELSE << [pos |-> pos, zone |-> c.stitch_areas[k].zone] >>

(***************************************************************************)
(* The collision resolver of perform_stitching (lines 278-348).            *)
(***************************************************************************)
\* A resolver without the self-spacing test.
SpacingConflictNever(pos, accepted, spacing) == FALSE

\* Lines 285-288: the candidate is closer than spacing to an accepted point.
SpacingConflict(pos, accepted, spacing) ==
    \E k \in 1..Len(accepted) : LenLess(DistSq(pos, accepted[k]), spacing)

\* An exemption that does not compare the two nets.
NetExemptAnyNet(target_net, obs) == target_net # None /\ obs.net # None

\* Line 299: the obstacle is on the target net.
NetExempt(target_net, obs) ==
    target_net # None /\ obs.net # None /\ obs.net = target_net

\* Lines 294-296 and 302-311: the obstacle shares no layer with the via.
LayerSkipped(zone, layers_only, item) ==
    LET via_layers == IF zone.name # "" /\ layers_only THEN zone.layers ELSE {}
        is_list    == item.layer = None /\ item.type \in {"Via", "Pad"}
    IN  /\ via_layers # {}
        /\ IF is_list THEN item.layers # {} /\ item.layers \cap via_layers = {}
           ELSE item.layer # None /\ item.layer \notin via_layers

\* Lines 316-325: the distance to the obstacle, squared (Inf for a kind
\* that has no rule).
ObstacleDist(pos, item) ==
    CASE item.type = "Via"   -> DistSq(pos, item.position)
      [] item.type = "Pad"   -> DistSq(pos, item.position)
      [] item.type = "Track" -> point_segment_distance(pos, item.start, item.end)
      [] item.type = "ArcTrack" -> point_arc_distance(pos, item)
      [] OTHER               -> Inf

\* An obstacle taken for a point, whatever its size.
ObstacleWidthNone(item) == 0 * item.w

\* Lines 316-325: obs_clearance, doubled.
ObstacleWidth(item) ==
    CASE item.type = "Via"   -> item.w
      [] item.type = "Pad"   -> IF item.has_cu THEN Max2(item.size.x, item.size.y) ELSE 0
      [] item.type = "Track" -> item.w
      [] item.type = "ArcTrack" -> item.w
      [] OTHER               -> 0

\* A clearance test that leaves the clearance out of the threshold.
ViolatesNoClearance(pos, item, via_size, clearance) ==
    DLess(ObstacleDist(pos, item), via_size + ObstacleWidth(item))

\* Line 327: dist < via_radius_nm + obs_clearance + clearance_nm.
Violates(pos, item, via_size, clearance) ==
    DLess(ObstacleDist(pos, item), via_size + ObstacleWidth(item) + 2 * clearance)

\* Lines 298-329: the obstacle is checked and found too close.
StitchConflict(pos, zone, obs, c) ==
    /\ ~NetExempt(c.target_net, obs)
    /\ ~LayerSkipped(zone, c.layers_only, obs.item)
    /\ Violates(pos, obs.item, c.via_size, c.clearance)

RECURSIVE FirstConflict(_, _, _, _, _)
\* The index of the first obstacle in conflict, 0 if none.
FirstConflict(pos, zone, obstacles, c, k) ==
    IF k > Len(obstacles) THEN 0
    ELSE IF StitchConflict(pos, zone, obstacles[k], c) THEN k
    ELSE FirstConflict(pos, zone, obstacles, c, k + 1)

\* error_reason after the spacing and the obstacle loops.
StitchVerdict(cand, accepted, c) ==
    IF SpacingConflict(cand.pos, accepted, c.spacing) THEN "Spacing conflict with new via"
    ELSE LET k == FirstConflict(cand.pos, cand.zone, c.obstacles, c, 1)
         IN  IF k = 0 THEN "" ELSE "Conflict: " \o c.obstacles[k].type

NewVia(pos, c) ==
    [kind |-> "Via", position |-> pos, diameter |-> c.via_size,
     drill_diameter |-> c.drill_size, net |-> c.target_net, value |-> ""]

NewText(pos, reason) ==
    [kind |-> "BoardText", position |-> pos, diameter |-> 0,
     drill_diameter |-> 0, net |-> None, value |-> reason]

\* A resolver that keeps every conflicting via, debug mode or not.
KeptAlways(reason, debug) == reason # ""

\* Lines 331-348: whether the candidate is kept although it is in conflict.
KeptInDebug(reason, debug) == reason # "" /\ debug

\* Lines 331-348: what the candidate appends to validated_points.
StitchAccepted(cand, reason, debug) ==
    IF reason = "Spacing conflict with new via" THEN <<>>
    ELSE IF reason = "" \/ KeptInDebug(reason, debug) THEN <<cand.pos>>
    ELSE <<>>

\* Lines 336-348: what the candidate appends to items_to_create.
StitchItems(cand, reason, debug, c) ==
    IF reason = "Spacing conflict with new via" THEN <<>>
    ELSE IF reason = "" THEN << NewVia(cand.pos, c) >>
    ELSE IF KeptInDebug(reason, debug) THEN << NewVia(cand.pos, c), NewText(cand.pos, reason) >>
    ELSE <<>>

IsVia(it) == it.kind = "Via"

\* len([i for i in items_to_create if isinstance(i, Via)])
ViaCount(items) == Len(SelectSeq(items, IsVia))

(***************************************************************************)
(* Inputs.                                                                 *)
(***************************************************************************)
\* The sizing fields on_stitch sends (lines 172-175): manual sizes, or a netclass.
ManualSizing == [manual |-> TRUE, via_size |-> 2, drill_size |-> 1, netclass_name |-> ""]

NetclassSizing(name) ==
    [manual |-> FALSE, via_size |-> 0, drill_size |-> 0, netclass_name |-> name]

\* The params dict on_stitch builds (lines 161-175).
StitchParam(sz, sp, cl, ec, nn, ro, rv, mx, my, so, lo) ==
    [manual |-> sz.manual, via_size |-> sz.via_size, drill_size |-> sz.drill_size,
     netclass_name |-> sz.netclass_name, spacing |-> sp, clearance |-> cl,
     edge_clearance |-> ec, net_name |-> nn, row_offset |-> ro,
     random_variance |-> rv, max_x_variance |-> mx, max_y_variance |-> my,
     stitch_selection_only |-> so, stitch_layers_only |-> lo]

\* The parameter settings explored.  A setting that makes the run raise before
\* the other fields are read is taken once; random variance (which multiplies
\* the candidate lists) is explored on the settings where only it varies.
StitchParams ==
    { StitchParam(NetclassSizing(n), 2, 0, 0, None, 0, FALSE, 0, 0, FALSE, FALSE) :
        n \in {"", "Bad", "Missing", "Default"} }
    \cup
    { StitchParam(ManualSizing, sp, 0, 0, None, 0, rv, 1, 0, FALSE, FALSE) :
        sp \in {-2, 0}, rv \in BOOLEAN }
    \cup
    { StitchParam(ManualSizing, sp, cl, ec, nn, 0, FALSE, 1, 0, so[1], so[2]) :
        sp \in {2, 3}, cl \in {0, 1}, ec \in {0, 1}, nn \in {None, "GND"},
        so \in { <<FALSE, FALSE>>, <<TRUE, FALSE>>, <<TRUE, TRUE>> } }
    \cup
    { StitchParam(ManualSizing, sp, 0, 0, None, 1, FALSE, 1, 0, so, FALSE) :
        sp \in {2, 3}, so \in BOOLEAN }
    \cup
    { StitchParam(ManualSizing, sp, 0, ec, None, 0, TRUE, 1, 0, so, FALSE) :
        sp \in {2, 3}, ec \in {0, 1}, so \in BOOLEAN }

Board(shapes, zones, items) ==
    [shapes |-> shapes, selected_zones |-> zones, items |-> items]

\* The snapshots of the older dialog taken from those of the newer one:
\* boards without zones, copper shapes or texts (its lines 287-305 make
\* obstacles of those as well).
OldBoardOf(b) == Len(b.selected_zones) = 0

\* A board whose outline is one BoardRectangle, the square of the given side.
SquareShape(side) ==
    Shape("BoardRectangle", "Edge.Cuts", Box(0, 0, side, side), EmptyPoly,
          Vec(0, 0), Vec(side, side))

\* A 10 mm x 10 mm board without obstacles, stitched with vias of 0.8 mm at
\* a spacing of 2 mm and an edge clearance of 0.5 mm, no row offset, no
\* jitter.  One unit is 0.1 mm.
ScenarioB ==
    [board  |-> Board(<<SquareShape(100)>>, <<>>, <<>>),
     params |-> { StitchParam([manual |-> TRUE, via_size |-> 8, drill_size |-> 4,
                               netclass_name |-> ""],
                              20, 0, 5, None, 0, FALSE, 0, 0, FALSE, FALSE) }]

\* A 12 x 12 board with one via of diameter 6 on net SIG at its centre,
\* stitched with vias of diameter 2 at a spacing of 2 (less than the
\* obstacle's radius), with clearance 0 or 1.
ScenarioC ==
    [board  |-> Board(<<SquareShape(12)>>, <<>>, << ViaItem(1, "SIG", Vec(6, 6), 6) >>),
     params |-> { StitchParam(ManualSizing, 2, cl, 0, None, 0, FALSE, 0, 0, FALSE, FALSE) :
                    cl \in {0, 1} }]

Scenarios == { ScenarioB, ScenarioC }

ScenarioBoards == { sc.board : sc \in Scenarios }

\* The parameter settings explored on a board: a scenario's own on its
\* board, StitchParams on any other.
StitchParamsOf(b) ==
    IF b \in ScenarioBoards THEN UNION { sc.params : sc \in { t \in Scenarios : t.board = b } }
    ELSE StitchParams

\* The board snapshots (with the dialog's zone selection) explored.
StitchBoards ==
    { Board(o, <<>>, <<>>) : o \in Outlines }
    \cup { Board(<<RectShape>>, <<>>, it) : it \in ItemLists }
    \cup { Board(<<RectShape>>, z, it) : z \in ZoneSelections, it \in ItemLists }
    \cup { Board(<<LShape>>, <<>>, it) : it \in ItemLists }

(***************************************************************************)
(* perform_fencing and _generate_candidates (via_fence_action.py).         *)
(***************************************************************************)
\* floor(2 * sqrt(l2) / s) for s > 0: the largest m with (m * s)^2 <= 4 * l2.
FloorTwiceSqrtDiv(l2, s) ==
    CHOOSE m \in 0..(2 * l2 + 1) :
        /\ m * m * s * s <= 4 * l2
        /\ (m + 1) * (m + 1) * s * s > 4 * l2

\* round(length / spacing) with length = sqrt(l2): Python rounds a tie to even.
RoundLenDiv(l2, s) ==
    LET m == FloorTwiceSqrtDiv(l2, s)
        k == m \div 2
    IN  IF m % 2 = 0 THEN k
        ELSE IF m * m * s * s = 4 * l2 /\ k % 2 = 0 THEN k
        ELSE k + 1

\* (p2 - p1) * (1.0 / length): a Vector2, so each coordinate is truncated; it is
\* a unit step on an axis-parallel segment and (0, 0) on any other.
Direction(p1, p2) ==
    LET d == VSub(p2, p1)
    IN  Vec(IF d.y = 0 THEN Sign(d.x) ELSE 0, IF d.x = 0 THEN Sign(d.y) ELSE 0)

\* direction * (actual_spacing * i), actual_spacing = length / (num_vias - 1):
\* only an axis-parallel direction is non-zero, and there length = |d.x| + |d.y|.
AlongStep(p1, p2, i, n) ==
    LET d      == VSub(p2, p1)
        dir    == Direction(p1, p2)
        length == Abs(d.x) + Abs(d.y)
    IN  Vec(Trunc(dir.x * length * i, n - 1), Trunc(dir.y * length * i, n - 1))

\* perp_dir * offset_dist * side, offset_dist = offset2 / 2.
PerpOffset(p1, p2, offset2, side) ==
    LET dir  == Direction(p1, p2)
        perp == Vec(0 - dir.y, dir.x)
    IN  Vec(Trunc(perp.x * offset2, 2) * side, Trunc(perp.y * offset2, 2) * side)

\* getattr(item, 'width', 0): a BoardSegment has no width.
ItemWidth(item) == IF item.type \in {"Track", "ArcTrack"} THEN item.w ELSE 0

\* Lines 216-228: the points of one row on one side of a straight item.
SegmentRow(item, spacing, offset2, side) ==
    LET p1 == item.start
        p2 == item.end
        l2 == DistSq(p1, p2)
        n  == RoundLenDiv(l2, spacing) + 1
    IN  IF l2 = 0 \/ n <= 1 THEN <<>>
        ELSE [k \in 1..n |->
                 VAdd(VAdd(p1, AlongStep(p1, p2, k - 1, n)),
                      PerpOffset(p1, p2, offset2, side))]

\* Lines 229-250: the points of one row on one side of an arc.  An arc whose
\* centre is undefined (collinear points) gives none.
ArcRow(item, spacing, offset2, side) == <<>>

\* Lines 214-250: one row on one side.
RowSide(item, spacing, offset2, side) ==
    IF item.type \in {"Track", "BoardSegment"} THEN SegmentRow(item, spacing, offset2, side)
    ELSE IF item.type = "ArcTrack" THEN ArcRow(item, spacing, offset2, side)
    ELSE <<>>

RECURSIVE RowSides(_, _, _, _, _)
RowSides(item, spacing, offset2, sides, k) ==
    IF k > Len(sides) THEN <<>>
    ELSE RowSide(item, spacing, offset2, sides[k])
         \o RowSides(item, spacing, offset2, sides, k + 1)

RECURSIVE GenRows(_, _, _, _, _, _, _)
\* The loop over rows, lines 212-250, from row `row` on.
GenRows(item, spacing, distance, num_rows, row_offset, sides, row) ==
    IF row > num_rows THEN <<>>
    ELSE LET current_dist == distance + (row - 1) * row_offset
             offset2      == 2 * current_dist + ItemWidth(item)
         IN  RowSides(item, spacing, offset2, sides, 1)
             \o GenRows(item, spacing, distance, num_rows, row_offset, sides, row + 1)

\* _generate_candidates(item, spacing_nm, distance_nm, via_radius_nm, num_rows,
\* row_offset_nm, sides).
generate_candidates(item, spacing, distance, num_rows, row_offset, sides) ==
    GenRows(item, spacing, distance, num_rows, row_offset, sides, 1)

\* is_copper_layer(item.layer)
is_copper_layer(layer) == layer \in {"F.Cu", "B.Cu", "In1.Cu"}

RECURSIVE FenceAll(_, _, _)
\* Lines 307-311: every selected item, on both sides if it is on copper.
FenceAll(items, p, k) ==
    IF k > Len(items) THEN <<>>
    ELSE LET sides == IF is_copper_layer(items[k].layer) THEN <<-1, 1>> ELSE <<1>>
         IN  generate_candidates(items[k], p.spacing, p.distance, p.num_rows,
                                 p.row_offset, sides)
             \o FenceAll(items, p, k + 1)

\* Line 296: the midpoints of the paired points, none when the lengths differ.
Midpoints(points1, points2) ==
    IF Len(points1) = Len(points2)
    THEN [k \in 1..Len(points1) |-> VMulRat(VAdd(points1[k], points2[k]), 1, 2)]
    ELSE <<>>

\* Lines 278-283: every track and arc of the board that is not selected.
FenceObstacles(b) ==
    LET selected_ids == {b.selected_items[k].id : k \in 1..Len(b.selected_items)}
        NotSelected(it) == it.type \in {"Track", "ArcTrack"} /\ it.id \notin selected_ids
        kept == SelectSeq(b.items, NotSelected)
    IN  [i \in 1..Len(kept) |-> [item |-> kept[i], net |-> kept[i].net, type |-> kept[i].type]]

\* A differential pair that is three or more items passes.
PairMalformedLoose(items) == Len(items) < 2

\* Line 288: len(self.selected_items) != 2.
PairMalformed(items) == Len(items) # 2

\* Lines 286-311: the candidate points, or the error raised on the way.  A
\* Track, ArcTrack or BoardSegment has no position attribute, so the outer
\* filter of line 301 raises as soon as it compares a point with a midpoint.
FenceCandidates(b, p) ==
    IF p.is_diff_pair
    THEN IF PairMalformed(b.selected_items)
         THEN [err |-> "Differential pair fencing requires exactly two tracks to be selected.",
               etype |-> "ValueError", points |-> <<>>]
         ELSE LET points1 == generate_candidates(b.selected_items[1], p.spacing, p.distance,
                                                 p.num_rows, p.row_offset, <<-1, 1>>)
                  points2 == generate_candidates(b.selected_items[2], p.spacing, p.distance,
                                                 p.num_rows, p.row_offset, <<-1, 1>>)
                  midpoints == Midpoints(points1, points2)
              IN  IF Len(midpoints) > 0 /\ Len(points1 \o points2) > 0
                  THEN [err |-> "object has no attribute 'position'",
                        etype |-> "AttributeError", points |-> <<>>]
                  ELSE [err |-> "", etype |-> "", points |-> points1 \o points2]
    ELSE [err |-> "", etype |-> "", points |-> FenceAll(b.selected_items, p, 1)]

\* Everything perform_fencing computes before its resolver loop.
FenceSetup(b, p) ==
    LET sz == Sizing(p)
        g  == FenceCandidates(b, p)
    IN  IF sz.err # "" THEN [err |-> sz.err, etype |-> "Exception", ctx |-> NoCtx, points |-> <<>>]
        ELSE IF ~SpacingOk(p.spacing)
        THEN [err |-> "Spacing must be a positive value.", etype |-> "ValueError",
              ctx |-> NoCtx, points |-> <<>>]
        ELSE IF g.err # "" THEN [err |-> g.err, etype |-> g.etype, ctx |-> NoCtx, points |-> <<>>]
        ELSE [err |-> "", etype |-> "", points |-> g.points,
              ctx |-> [via_size    |-> sz.via_size,
                       drill_size  |-> sz.drill_size,
                       spacing     |-> p.spacing,
                       clearance   |-> p.clearance,
                       layers_only |-> FALSE,
                       target_net  |-> TargetNet(p),
                       obstacles   |-> FenceObstacles(b)]]

\* Lines 336-339: the distance to a track obstacle, squared.
FenceObstacleDist(pos, item) ==
    CASE item.type = "Track"    -> point_segment_distance(pos, item.start, item.end)
      [] item.type = "ArcTrack" -> point_arc_distance(pos, item)
      [] OTHER                  -> Inf

\* Lines 329-343: the obstacle is checked and found too close.
FenceConflict(pos, obs, c) ==
    /\ ~NetExempt(c.target_net, obs)
    /\ DLess(FenceObstacleDist(pos, obs.item), c.via_size + ItemWidth(obs.item) + 2 * c.clearance)

RECURSIVE FenceFirstConflict(_, _, _, _)
FenceFirstConflict(pos, obstacles, c, k) ==
    IF k > Len(obstacles) THEN 0
    ELSE IF FenceConflict(pos, obstacles[k], c) THEN k
    ELSE FenceFirstConflict(pos, obstacles, c, k + 1)

\* error_reason after the spacing and the obstacle loops, lines 318-343.
FenceVerdict(pos, accepted, c) ==
    IF SpacingConflict(pos, accepted, c.spacing) THEN "Spacing conflict with new via"
    ELSE LET k == FenceFirstConflict(pos, c.obstacles, c, 1)
         IN  IF k = 0 THEN "" ELSE "Conflict: " \o c.obstacles[k].type

\* Lines 345-346: what the candidate appends to validated_points.
FenceAccepted(pos, reason) == IF reason = "" THEN <<pos>> ELSE <<>>

\* Lines 345-362: what the candidate appends to items_to_create.
FenceItems(pos, reason, debug, c) ==
    IF reason = "Spacing conflict with new via" THEN <<>>
    ELSE IF reason = "" THEN << NewVia(pos, c) >>
    ELSE IF debug THEN << NewVia(pos, c), NewText(pos, reason) >>
    ELSE <<>>

(***************************************************************************)
(* perform_stitching of the older dialog (via-stitch.py).                  *)
(***************************************************************************)
\* The closed ring through the polygon's points (lines 28-33).
ClosedRing(points) ==
    IF Len(points) < 2 THEN <<>>
    ELSE [i \in 1..Len(points) |-> <<points[i], points[(i % Len(points)) + 1]>>]

\* Lines 34-39: the four sides of the rectangle's bounding box.
RectSegments(bbox) ==
    LET p1 == bbox.pos
        p3 == Vec(bbox.pos.x + bbox.size.x, bbox.pos.y + bbox.size.y)
        p2 == Vec(p3.x, p1.y)
        p4 == Vec(p1.x, p3.y)
    IN  << <<p1, p2>>, <<p2, p3>>, <<p3, p4>>, <<p4, p1>> >>

RECURSIVE OldOutlineSegments(_, _)
\* get_outline_segments(board, shapes) of via-stitch.py, lines 25-49.
OldOutlineSegments(shapes, k) ==
    IF k > Len(shapes) THEN <<>>
    ELSE LET sh == shapes[k]
         IN  (CASE sh.type = "BoardPolygon"   -> ClosedRing(sh.poly.outline.nodes)
                [] sh.type = "BoardRectangle" -> IF sh.bbox.has THEN RectSegments(sh.bbox) ELSE <<>>
                [] sh.type = "BoardSegment"   -> << <<sh.start, sh.end>> >>
                [] OTHER                      -> <<>>)
             \o OldOutlineSegments(shapes, k + 1)

HasBox(sh) == sh.bbox.has

\* get_enclosing_bbox(board, shapes) of via-stitch.py, lines 51-59.
OldEnclosingBBox(shapes) ==
    LET with == SelectSeq(shapes, HasBox)
    IN  IF Len(with) = 0 THEN NoBox
        ELSE MergeAll(with[1].bbox, [i \in 1..Len(with) |-> with[i].bbox], 2)

\* A Zone among the items of the board, as the older dialog reads it.
ZoneItem(z, rule_area) ==
    [type |-> "Zone", rule_area |-> rule_area, filled |-> z.filled,
     filled_polygons |-> z.filled_polygons, net |-> z.net]

\* The zones board.get_items returns (a snapshot without the field has none).
OldZones(b) == IF "zones" \in DOMAIN b THEN b.zones ELSE <<>>

RECURSIVE OldZoneObstacles(_, _)
\* Lines 299-303: one obstacle for each filled polygon of each filled zone
\* that is not a rule area.
OldZoneObstacles(zones, k) ==
    IF k > Len(zones) THEN <<>>
    ELSE LET z     == zones[k]
             polys == FlatPolys(z.filled_polygons, 1)
         IN  (IF z.rule_area \/ ~z.filled THEN <<>>
              ELSE [i \in 1..Len(polys) |->
                       [item |-> polys[i], net |-> z.net, type |-> "zone_poly"]])
             \o OldZoneObstacles(zones, k + 1)

\* Lines 281-305: pads, vias, tracks and arcs, then the zone polygons.
OldObstacles(b) == StitchObstacles(b) \o OldZoneObstacles(OldZones(b), 1)

\* Lines 253-311: everything the older perform_stitching computes before its
\* grid loops.  It has no test of the spacing.
OldSetup(b, p) ==
    LET sz             == Sizing(p)
        outline_shapes == SelectSeq(b.shapes, IsEdgeCuts)
        bbox           == OldEnclosingBBox(outline_shapes)
    IN  IF sz.err # "" THEN [err |-> sz.err, etype |-> "Exception", ctx |-> NoCtx]
        ELSE IF Len(outline_shapes) = 0
        THEN [err |-> "No valid board outline found.", etype |-> "Exception", ctx |-> NoCtx]
        ELSE IF ~bbox.has
        THEN [err |-> "Could not determine board bounding box.", etype |-> "Exception",
              ctx |-> NoCtx]
        ELSE [err |-> "", etype |-> "",
              ctx |-> [via_size         |-> sz.via_size,
                       drill_size       |-> sz.drill_size,
                       spacing          |-> p.spacing,
                       edge_clearance   |-> p.edge_clearance,
                       clearance        |-> p.clearance,
                       row_offset       |-> p.row_offset,
                       random_variance  |-> p.random_variance,
                       max_x_variance   |-> p.max_x_variance,
                       max_y_variance   |-> p.max_y_variance,
                       layers_only      |-> FALSE,
                       outline_segments |-> OldOutlineSegments(outline_shapes, 1),
                       bbox             |-> bbox,
                       center           |-> BoxCenter(bbox),
                       half_cols        |-> HalfCount(bbox.size.x, p.spacing),
                       half_rows        |-> HalfCount(bbox.size.y, p.spacing),
                       target_net       |-> TargetNet(p),
                       obstacles        |-> OldObstacles(b)]]

\* Lines 323-325: the raw point is inside the outline and clear of its edge.
OldCandidate(pos, c) ==
    IF /\ is_point_inside_segments(pos, c.outline_segments)
       /\ ~DLess(MinSegDist(pos, c.outline_segments, 1), c.via_size + 2 * c.edge_clearance)
    THEN << [pos |-> pos, zone |-> NoZone] >>
    ELSE <<>>

\* Lines 349-360: obs_clearance, doubled; a Pad counts its F.Cu copper only.
OldObstacleWidth(item) ==
    CASE item.type = "Via"      -> item.w
      [] item.type = "Pad"      -> IF item.has_cu /\ "F.Cu" \in item.layers
                                   THEN Max2(item.size.x, item.size.y) ELSE 0
      [] item.type = "Track"    -> item.w
      [] item.type = "ArcTrack" -> item.w
      [] OTHER                  -> 0

\* Lines 341-375: the obstacle is checked and found too close.
OldConflict(pos, obs, c) ==
    /\ ~NetExempt(c.target_net, obs)
    /\ DLess(ObstacleDist(pos, obs.item), c.via_size + OldObstacleWidth(obs.item) + 2 * c.clearance)

\* Lines 369-370: the candidate is nearer to the centre of the polygon's
\* bounding box than via_radius + max(width, height) / 2 + clearance.
ZoneBoxNear(pos, item, c) ==
    LET bbox == PolyBBox(item)
    IN  DistLess(DistSq(pos, BoxCenter(bbox)),
                 c.via_size + Max2(bbox.size.x, bbox.size.y) + 2 * c.clearance)

\* point_polygon_distance of via-stitch.py (lines 101-116), squared: it reads
\* poly.polygons, which a BoardPolygon has and a PolygonWithHoles (what
\* zone.filled_polygons holds) has not; `raised` is the AttributeError.
OldPointPolygonDistance(p, poly) ==
    IF "polygons" \notin DOMAIN poly THEN [raised |-> TRUE, dist |-> Inf]
    ELSE LET points   == IF Len(poly.polygons) > 0 THEN poly.polygons[1].outline.nodes
                         ELSE <<>>
             segments == ClosedRing(points)
         IN  [raised |-> FALSE,
              dist   |-> IF Len(segments) = 0 THEN Inf
                         ELSE IF is_point_inside_segments(p, segments) THEN 0
                         ELSE MinSegDist(p, segments, 1)]

RECURSIVE OldScan(_, _, _)
\* The obstacle loop, lines 341-375, from obstacle k on: "rejected" at the
\* first obstacle found too close, "error" when the distance to a zone
\* polygon raises, "" when the loop ends.
OldScan(pos, c, k) ==
    IF k > Len(c.obstacles) THEN ""
    ELSE LET obs == c.obstacles[k]
         IN  IF NetExempt(c.target_net, obs) THEN OldScan(pos, c, k + 1)
             ELSE IF obs.type = "zone_poly"
             THEN IF ~ZoneBoxNear(pos, obs.item, c) THEN OldScan(pos, c, k + 1)
                  ELSE LET d == OldPointPolygonDistance(pos, obs.item)
                       IN  IF d.raised THEN "error"
                           ELSE IF DLess(d.dist, c.via_size + 2 * c.clearance)
                           THEN "rejected"
                           ELSE OldScan(pos, c, k + 1)
             ELSE IF OldConflict(pos, obs, c) THEN "rejected"
             ELSE OldScan(pos, c, k + 1)

\* is_valid after the spacing and the obstacle loops, lines 333-375.
OldValid(pos, accepted, c) ==
    /\ ~SpacingConflict(pos, accepted, c.spacing)
    /\ OldScan(pos, c, 1) = ""

\* The candidate passes the spacing test and the obstacle loop raises.
OldRaises(pos, accepted, c) ==
    /\ ~SpacingConflict(pos, accepted, c.spacing)
    /\ OldScan(pos, c, 1) = "error"

\* The square 0..12 as a filled polygon of a zone.
ZoneSquare == PolygonWithHoles(RectLine(0, 0, 12, 12), <<>>)

\* Boards of 12 x 12 covered by one zone on net GND, filled or not, rule area
\* or not.
OldZoneBoards ==
    { [shapes |-> <<SquareShape(12)>>, selected_zones |-> <<>>, items |-> <<>>,
       zones |-> << ZoneItem(Zone("G", f, << [layer |-> "F.Cu", polys |-> <<ZoneSquare>>] >>,
                                  {"F.Cu"}, "GND", ZoneSquare), ra) >>] :
        f \in BOOLEAN, ra \in BOOLEAN }

\* The parameter settings explored on a board of the older dialog.
OldParamsOf(b) ==
    IF b \in OldZoneBoards
    THEN { StitchParam(ManualSizing, 5, cl, 0, nn, 0, FALSE, 0, 0, FALSE, FALSE) :
             cl \in {0, 1}, nn \in {None, "GND"} }
    ELSE StitchParams

(***************************************************************************)
(* main of the command-line script (via_stitch.py).                        *)
(***************************************************************************)
\* Twice the signed shoelace sum of the ring through the points.
RECURSIVE Shoelace(_, _)
Shoelace(points, i) ==
    IF i > Len(points) THEN 0
    ELSE LET j == (i % Len(points)) + 1
         IN  points[i].x * points[j].y - points[j].x * points[i].y + Shoelace(points, i + 1)

\* get_polygon_area(polygon), doubled (lines 15-31).
get_polygon_area(sh) ==
    IF Len(sh.poly.outline.nodes) < 3 THEN 0 ELSE Abs(Shoelace(sh.poly.outline.nodes, 1))

IsBoardPolygon(sh) == sh.type = "BoardPolygon"

\* max(board_polygons, key=get_polygon_area): the first of the largest.
LargestPolygon(polys) ==
    LET best == CHOOSE i \in 1..Len(polys) :
                    /\ \A j \in 1..Len(polys) : get_polygon_area(polys[j]) <= get_polygon_area(polys[i])
                    /\ \A j \in 1..(i - 1) : get_polygon_area(polys[j]) < get_polygon_area(polys[i])
    IN  polys[best]

\* Lines 62-123: everything main computes before its tiling loops; it exits
\* with status 1 on the way, and has no test of the spacing.
CliSetup(b, args) ==
    LET edge_cuts_shapes == SelectSeq(b.shapes, IsEdgeCuts)
        board_polygons   == SelectSeq(edge_cuts_shapes, IsBoardPolygon)
    IN  IF Len(edge_cuts_shapes) = 0
        THEN [err |-> "No shapes found on Edge.Cuts layer.", ctx |-> NoCtx]
        ELSE IF Len(board_polygons) = 0
        THEN [err |-> "No BoardPolygon found on Edge.Cuts layer.", ctx |-> NoCtx]
        ELSE LET outline_poly == LargestPolygon(board_polygons)
             IN  IF ~outline_poly.bbox.has
                 THEN [err |-> "Could not determine bounding box of the main outline polygon.",
                       ctx |-> NoCtx]
                 ELSE [err |-> "",
                       ctx |-> [via_size   |-> args.via_size,
                                drill_size |-> args.drill_size,
                                spacing    |-> args.spacing,
                                bbox       |-> outline_poly.bbox,
                                target_net |->
                                    IF args.net_class # None
                                       /\ Len(NetClasses[args.net_class].nets) > 0
                                    THEN NetClasses[args.net_class].nets[1] ELSE None]]

\* Lines 142-159: the vias of the whole grid, row after row; every other row is
\* shifted by spacing / 2.
CliRowVias(y, odd, xs, c) ==
    [k \in 1..Len(xs) |->
        NewVia(Vec(IF odd THEN Trunc(2 * xs[k] + c.spacing, 2) ELSE xs[k], y), c)]

RECURSIVE CliGridVias(_, _, _, _)
CliGridVias(ys, xs, c, r) ==
    IF r > Len(ys) THEN <<>>
    ELSE CliRowVias(ys[r], r % 2 = 0, xs, c) \o CliGridVias(ys, xs, c, r + 1)

\* The params dict on_fence builds (lines 175-189).
FenceParam(sz, nr, di, sp, ro, cl, nn, dp) ==
    [manual |-> sz.manual, via_size |-> sz.via_size, drill_size |-> sz.drill_size,
     netclass_name |-> sz.netclass_name, num_rows |-> nr, distance |-> di, spacing |-> sp,
     row_offset |-> ro, clearance |-> cl, net_name |-> nn, is_diff_pair |-> dp]

MaxNumRows == 2

FenceParams ==
    { FenceParam(NetclassSizing(n), 1, 1, 2, 0, 0, None, FALSE) :
        n \in {"", "Bad", "Missing", "Default"} }
    \cup
    { FenceParam(ManualSizing, 1, 1, sp, 0, 0, None, dp) : sp \in {-2, 0}, dp \in BOOLEAN }
    \cup
    { FenceParam(ManualSizing, nr, di, sp, ro, cl, nn, dp) :
        nr \in 0..MaxNumRows, di \in {1, 2}, sp \in {2, 3}, ro \in {0, 1}, cl \in {0, 1},
        nn \in {None, "GND"}, dp \in BOOLEAN }

T1 == TrackItem(1, "SIG", "F.Cu", Vec(0, 0), Vec(4, 0), 0)

T2 == TrackItem(2, "SIG", "F.Cu", Vec(0, 2), Vec(4, 2), 0)

T3 == TrackItem(3, "", "F.Cu", Vec(1, 1), Vec(1, 1), 0)

T4 == TrackItem(4, "GND", "F.Cu", Vec(2, -3), Vec(2, -1), 2)

T5 == TrackItem(5, "", "B.Cu", Vec(0, 0), Vec(3, 4), 1)

A1 == FlatArcItem(6, "SIG", "F.Cu", Vec(0, 4), Vec(4, 4), 0)

S1 == SegmentItem(7, "Dwgs.User", Vec(0, 0), Vec(0, 4))

\* A track parallel to T1, of the same length, 4 away from it.
D2 == TrackItem(8, "SIG", "F.Cu", Vec(0, 4), Vec(4, 4), 0)

T6 == TrackItem(9, "SIG", "F.Cu", Vec(0, 0), Vec(1, 0), 0)

S2 == SegmentItem(10, "Dwgs.User", Vec(0, 0), Vec(5, 0))

S3 == SegmentItem(11, "Dwgs.User", Vec(0, 0), Vec(3, 4))

\* The board's tracks and arcs with the dialog's selection.
FenceBoards ==
    { [items |-> <<T1, T2, T3, T4, T5, A1>>, selected_items |-> sel] :
        sel \in { <<>>, <<T1>>, <<T1, T2>>, <<T1, T3>>, <<T3>>, <<A1>>, <<S1>>, <<T5>>,
                  <<T1, T2, T3>>, <<S1, T1>>, <<T1, D2>>, <<T1, T4>>, <<T6>> } }
    \cup { [items |-> <<>>, selected_items |-> sel] : sel \in { <<S1>>, <<S2>>, <<S3>> } }

\* The arguments of the command-line script.
CliArgs ==
    [via_size : {2}, drill_size : {1}, spacing : {-2, 0, 2, 3},
     net_class : {None, "Default", "Missing"}]

SmallPoly ==
    Shape("BoardPolygon", "Edge.Cuts", Box(1, 1, 1, 1),
          PolygonWithHoles(RectLine(1, 1, 2, 2), <<>>), Vec(0, 0), Vec(0, 0))

NoBoxPoly == Shape("BoardPolygon", "Edge.Cuts", NoBox, LPoly, Vec(0, 0), Vec(0, 0))

CliBoards ==
    { Board(o, <<>>, <<>>) :
        o \in Outlines \cup { <<SmallPoly>>, <<SmallPoly, LShape>>, <<NoBoxPoly>> } }

\* How many coordinates a tiling loop of the command-line script is followed for.
MaxCoords == 6

(***************************************************************************)
(* Actions of the stitching dialog (via_stitch_action.py).                 *)
(***************************************************************************)
\* on_stitch -> perform_stitching, lines 191-257: validate, collect, set up
\* the grid loops.
PerformStitching ==
    /\ pc = "idle"
    /\ tool = "stitch"
    /\ \E p \in StitchParamsOf(board) :
          LET s == StitchSetup(board, p)
          IN  /\ params' = p
              /\ IF s.err # ""
                 THEN /\ pc' = "error"
                      /\ result' = Raised(s.etype, s.err)
                      /\ UNCHANGED << ctx, gi, gj >>
                 ELSE /\ pc' = "generate"
                      /\ ctx' = s.ctx
                      /\ gi' = 0 - s.ctx.half_rows
                      /\ gj' = 0 - s.ctx.half_cols
                      /\ UNCHANGED result
    /\ UNCHANGED << tool, debug_mode, board, candidate_positions, ci, validated_points,
                    items_to_create, verdicts, calls, coords, current, previous >>

\* Line 276, and line 328 of the older dialog: the message of the exception
\* raised when the grid loops kept no point.
NoPositions ==
    IF tool = "old"
    THEN "No valid positions for vias found within board outline and edge clearance."
    ELSE "No valid positions for vias found within the specified area and clearance."

\* The grid loops' bookkeeping after one raw point: next column, next row, or
\* out of the loops (with the "no valid positions" error when nothing was kept).
GridAdvance(cands) ==
    IF gj < ctx.half_cols
    THEN /\ gj' = gj + 1
         /\ UNCHANGED << gi, pc, result >>
    ELSE IF gi < ctx.half_rows
    THEN /\ gi' = gi + 1
         /\ gj' = 0 - ctx.half_cols
         /\ UNCHANGED << pc, result >>
    ELSE IF Len(cands) = 0
    THEN /\ pc' = "error"
         /\ result' = Raised("Exception", NoPositions)
         /\ UNCHANGED << gi, gj >>
    ELSE /\ pc' = "filter"
         /\ UNCHANGED << gi, gj, result >>

\* One iteration of the inner grid loop, lines 260-272; leaving the loops,
\* lines 274-276.
StitchGridStep ==
    /\ pc = "generate"
    /\ tool = "stitch"
    /\ \E jx \in Jitter(ctx.random_variance, ctx.max_x_variance),
          jy \in Jitter(ctx.random_variance, ctx.max_y_variance) :
          LET pos   == GridPoint(ctx, gi, gj, jx, jy)
              cands == candidate_positions \o StitchCandidate(pos, ctx)
          IN  /\ candidate_positions' = cands
              /\ GridAdvance(cands)
    /\ UNCHANGED << tool, debug_mode, board, params, ctx, ci, validated_points,
                    items_to_create, verdicts, calls, coords, current, previous >>

\* One iteration of the resolver loop, lines 280-348.
StitchFilterStep ==
    /\ pc = "filter"
    /\ tool = "stitch"
    /\ ci <= Len(candidate_positions)
    /\ LET cand   == candidate_positions[ci]
           reason == StitchVerdict(cand, validated_points, ctx)
       IN  /\ validated_points' = validated_points \o StitchAccepted(cand, reason, debug_mode)
           /\ items_to_create' = items_to_create \o StitchItems(cand, reason, debug_mode, ctx)
           /\ verdicts' = Append(verdicts, reason)
    /\ ci' = ci + 1
    /\ UNCHANGED << tool, debug_mode, board, params, pc, ctx, gi, gj,
                    candidate_positions, calls, result, coords, current, previous >>

\* A closing part that commits even when there is nothing to create.
CommitCallsAlways(items) == << "begin_commit", "create_items", "push_commit" >>

\* Lines 352-359: the calls made on the board, none when items_to_create is
\* empty.
CommitCalls(items) ==
    IF Len(items) = 0 THEN <<>>
    ELSE << "begin_commit", "create_items", "push_commit" >>

\* Lines 350-361 (and the closing lines of perform_fencing and of the older
\* perform_stitching): return 0 when there is nothing to create, else commit
\* the items and return the number of vias.
Finish ==
    /\ pc = "filter"
    /\ ci > Len(candidate_positions)
    /\ pc' = "done"
    /\ result' = Returned(ViaCount(items_to_create))
    /\ calls' = calls \o CommitCalls(items_to_create)
    /\ UNCHANGED << tool, debug_mode, board, params, ctx, gi, gj, candidate_positions,
                    ci, validated_points, items_to_create, verdicts, coords, current,
                    previous >>

(***************************************************************************)
(* Actions of the fencing dialog (via_fence_action.py).                    *)
(***************************************************************************)
\* on_fence -> perform_fencing, lines 253-313: validate, collect the
\* obstacles, generate the candidate points.
PerformFencing ==
    /\ pc = "idle"
    /\ tool = "fence"
    /\ \E p \in FenceParams :
          LET s == FenceSetup(board, p)
          IN  /\ params' = p
              /\ IF s.err # ""
                 THEN /\ pc' = "error"
                      /\ result' = Raised(s.etype, s.err)
                      /\ UNCHANGED << ctx, candidate_positions >>
                 ELSE /\ pc' = "filter"
                      /\ ctx' = s.ctx
                      /\ candidate_positions' =
                            [k \in 1..Len(s.points) |-> [pos |-> s.points[k], zone |-> NoZone]]
                      /\ UNCHANGED result
    /\ UNCHANGED << tool, debug_mode, board, gi, gj, ci, validated_points,
                    items_to_create, verdicts, calls, coords, current, previous >>

\* One iteration of the resolver loop, lines 317-362.
FenceFilterStep ==
    /\ pc = "filter"
    /\ tool = "fence"
    /\ ci <= Len(candidate_positions)
    /\ LET pos    == candidate_positions[ci].pos
           reason == FenceVerdict(pos, validated_points, ctx)
       IN  /\ validated_points' = validated_points \o FenceAccepted(pos, reason)
           /\ items_to_create' = items_to_create \o FenceItems(pos, reason, debug_mode, ctx)
           /\ verdicts' = Append(verdicts, reason)
    /\ ci' = ci + 1
    /\ UNCHANGED << tool, debug_mode, board, params, pc, ctx, gi, gj,
                    candidate_positions, calls, result, coords, current, previous >>

(***************************************************************************)
(* Actions of the older stitching dialog (via-stitch.py).                  *)
(***************************************************************************)
\* on_stitch -> perform_stitching, lines 252-311.
OldPerformStitching ==
    /\ pc = "idle"
    /\ tool = "old"
    /\ \E p \in OldParamsOf(board) :
          LET s == OldSetup(board, p)
          IN  /\ ~p.stitch_selection_only
              /\ ~p.stitch_layers_only
              /\ params' = p
              /\ IF s.err # ""
                 THEN /\ pc' = "error"
                      /\ result' = Raised(s.etype, s.err)
                      /\ UNCHANGED << ctx, gi, gj >>
                 ELSE /\ pc' = "generate"
                      /\ ctx' = s.ctx
                      /\ gi' = 0 - s.ctx.half_rows
                      /\ gj' = 0 - s.ctx.half_cols
                      /\ UNCHANGED result
    /\ UNCHANGED << tool, debug_mode, board, candidate_positions, ci, validated_points,
                    items_to_create, verdicts, calls, coords, current, previous >>

\* One iteration of the inner grid loop, lines 314-325; leaving the loops,
\* lines 327-328.
OldGridStep ==
    /\ pc = "generate"
    /\ tool = "old"
    /\ \E jx \in Jitter(ctx.random_variance, ctx.max_x_variance),
          jy \in Jitter(ctx.random_variance, ctx.max_y_variance) :
          LET pos   == GridPoint(ctx, gi, gj, jx, jy)
              cands == candidate_positions \o OldCandidate(pos, ctx)
          IN  /\ candidate_positions' = cands
              /\ GridAdvance(cands)
    /\ UNCHANGED << tool, debug_mode, board, params, ctx, ci, validated_points,
                    items_to_create, verdicts, calls, coords, current, previous >>

\* One iteration of the resolver loop, lines 332-381.
OldFilterStep ==
    /\ pc = "filter"
    /\ tool = "old"
    /\ ci <= Len(candidate_positions)
    /\ LET pos   == candidate_positions[ci].pos
           valid == OldValid(pos, validated_points, ctx)
       IN  IF OldRaises(pos, validated_points, ctx)
           THEN /\ pc' = "error"
                /\ result' = Raised("AttributeError",
                                    "'PolygonWithHoles' object has no attribute 'polygons'")
                /\ UNCHANGED << ci, validated_points, items_to_create, verdicts >>
           ELSE /\ validated_points' = IF valid THEN Append(validated_points, pos)
                                       ELSE validated_points
                /\ items_to_create' = IF valid THEN Append(items_to_create, NewVia(pos, ctx))
                                      ELSE items_to_create
                /\ verdicts' = Append(verdicts, IF valid THEN "" ELSE "rejected")
                /\ ci' = ci + 1
                /\ UNCHANGED << pc, result >>
    /\ UNCHANGED << tool, debug_mode, board, params, ctx, gi, gj,
                    candidate_positions, calls, coords, current, previous >>

(***************************************************************************)
(* Actions of the command-line script (via_stitch.py).                     *)
(***************************************************************************)
\* main, lines 60-129: read the arguments, find the outline, start the y loop.
CliMain ==
    /\ pc = "idle"
    /\ tool = "cli"
    /\ \E args \in CliArgs :
          LET s == CliSetup(board, args)
          IN  /\ params' = args
              /\ IF s.err # ""
                 THEN /\ pc' = "error"
                      /\ result' = Raised("SystemExit", s.err)
                      /\ UNCHANGED << ctx, current >>
                 ELSE /\ pc' = "cli_y"
                      /\ ctx' = s.ctx
                      /\ current' = s.ctx.bbox.pos.y
                      /\ UNCHANGED result
    /\ UNCHANGED << tool, debug_mode, board, gi, gj, candidate_positions, ci,
                    validated_points, items_to_create, verdicts, calls, coords, previous >>

\* One test of "while current_y <= bbox.pos.y + bbox.size.y", lines 130-132,
\* and the start of the x loop, lines 134-135.
CliYStep ==
    /\ pc = "cli_y"
    /\ IF current <= ctx.bbox.pos.y + ctx.bbox.size.y
       THEN /\ Len(coords.y) < MaxCoords
            /\ coords' = [coords EXCEPT !.y = Append(@, current)]
            /\ current' = current + ctx.spacing
            /\ UNCHANGED pc
       ELSE /\ pc' = "cli_x"
            /\ current' = ctx.bbox.pos.x
            /\ UNCHANGED coords
    /\ UNCHANGED << tool, debug_mode, board, params, ctx, gi, gj, candidate_positions, ci,
                    validated_points, items_to_create, verdicts, calls, result, previous >>

\* One test of "while current_x <= bbox.pos.x + bbox.size.x", lines 136-138.
CliXStep ==
    /\ pc = "cli_x"
    /\ IF current <= ctx.bbox.pos.x + ctx.bbox.size.x
       THEN /\ Len(coords.x) < MaxCoords
            /\ coords' = [coords EXCEPT !.x = Append(@, current)]
            /\ current' = current + ctx.spacing
            /\ UNCHANGED pc
       ELSE /\ pc' = "cli_grid"
            /\ UNCHANGED << coords, current >>
    /\ UNCHANGED << tool, debug_mode, board, params, ctx, gi, gj, candidate_positions, ci,
                    validated_points, items_to_create, verdicts, calls, result, previous >>

\* Lines 140-177: a via at every grid point, then one commit.
CliGrid ==
    /\ pc = "cli_grid"
    /\ LET vias == CliGridVias(coords.y, coords.x, ctx, 1)
       IN  /\ items_to_create' = vias
           /\ calls' = IF Len(vias) = 0 THEN calls
                       ELSE calls \o << "begin_commit", "create_items", "push_commit" >>
           /\ result' = Returned(Len(vias))
    /\ pc' = "done"
    /\ UNCHANGED << tool, debug_mode, board, params, ctx, gi, gj, candidate_positions, ci,
                    validated_points, verdicts, coords, current, previous >>

(***************************************************************************)
(* A second run of a stitching dialog with the same parameters on the same *)
(* snapshot (the commit of the first run undone).                          *)
(***************************************************************************)
Rerun ==
    /\ pc = "done"
    /\ tool \in {"stitch", "old"}
    /\ ~previous.ran
    /\ previous' = [ran |-> TRUE, accepted |-> validated_points]
    /\ pc' = "generate"
    /\ gi' = 0 - ctx.half_rows
    /\ gj' = 0 - ctx.half_cols
    /\ candidate_positions' = <<>>
    /\ ci' = 1
    /\ validated_points' = <<>>
    /\ items_to_create' = <<>>
    /\ verdicts' = <<>>
    /\ calls' = <<>>
    /\ result' = NoResult
    /\ UNCHANGED << tool, debug_mode, board, params, ctx, coords, current >>

\* Nothing has run yet.
Idle ==
    /\ params = NoParams
    /\ pc = "idle"
    /\ ctx = NoCtx
    /\ gi = 0
    /\ gj = 0
    /\ candidate_positions = <<>>
    /\ ci = 1
    /\ validated_points = <<>>
    /\ items_to_create = <<>>
    /\ verdicts = <<>>
    /\ calls = <<>>
    /\ result = NoResult
    /\ coords = [y |-> <<>>, x |-> <<>>]
    /\ current = 0
    /\ previous = [ran |-> FALSE, accepted |-> <<>>]

Init ==
    /\ \/ tool = "stitch" /\ board \in StitchBoards \cup ScenarioBoards
                           /\ debug_mode \in BOOLEAN
       \/ tool = "fence" /\ board \in FenceBoards /\ debug_mode \in BOOLEAN
       \/ tool = "old" /\ board \in {b \in StitchBoards : OldBoardOf(b)} \cup OldZoneBoards
                        /\ debug_mode = FALSE
       \/ tool = "cli" /\ board \in CliBoards /\ debug_mode = FALSE
    /\ Idle

Next ==
    \/ PerformStitching
    \/ StitchGridStep
    \/ StitchFilterStep
    \/ PerformFencing
    \/ FenceFilterStep
    \/ OldPerformStitching
    \/ OldGridStep
    \/ OldFilterStep
    \/ CliMain
    \/ CliYStep
    \/ CliXStep
    \/ CliGrid
    \/ Finish

Spec == Init /\ [][Next]_vars

\* A board three units high, which takes one row of the grid.
WideShape ==
    Shape("BoardRectangle", "Edge.Cuts", Box(0, 0, 5, 3), EmptyPoly, Vec(0, 0), Vec(5, 3))

TwiceBoards ==
    { Board(<<WideShape>>, <<>>, it) : it \in ItemLists }
    \cup { Board(<<WideShape>>, z, <<>>) : z \in ZoneSelections }
    \cup { Board(o, <<>>, <<>>) : o \in { <<>>, <<NoBoxShape>> } }

\* The stitching dialogs, each run possibly followed by a second run with the
\* same parameters on the same snapshot.
InitTwice ==
    /\ \/ tool = "stitch" /\ debug_mode \in BOOLEAN /\ board \in TwiceBoards
       \/ tool = "old" /\ debug_mode = FALSE /\ board \in {b \in TwiceBoards : OldBoardOf(b)}
    /\ Idle

NextTwice ==
    \/ PerformStitching
    \/ StitchGridStep
    \/ StitchFilterStep
    \/ OldPerformStitching
    \/ OldGridStep
    \/ OldFilterStep
    \/ Finish
    \/ Rerun

SpecTwice == InitTwice /\ [][NextTwice]_vars

(***************************************************************************)
(* The resolver loops taken as functions of the candidate list.            *)
(***************************************************************************)
RECURSIVE StitchResolve(_, _, _, _, _)
\* validated_points after the loop of lines 280-348 has gone through
\* cands[k..], starting from the list accepted.
StitchResolve(cands, k, accepted, c, debug) ==
    IF k > Len(cands) THEN accepted
    ELSE StitchResolve(cands, k + 1,
             accepted \o StitchAccepted(cands[k], StitchVerdict(cands[k], accepted, c), debug),
             c, debug)

RECURSIVE FenceResolve(_, _, _, _)
\* validated_points after the loop of lines 317-362 has gone through
\* cands[k..], starting from the list accepted.
FenceResolve(cands, k, accepted, c) ==
    IF k > Len(cands) THEN accepted
    ELSE FenceResolve(cands, k + 1,
             accepted \o FenceAccepted(cands[k].pos, FenceVerdict(cands[k].pos, accepted, c)),
             c)

(***************************************************************************)
(* The functions of stitching_utils.py called on their own.                *)
(***************************************************************************)
\* What a call of a function returned.
Value(v) == [kind |-> "value", count |-> 0, etype |-> "", msg |-> "", value |-> v]

\* The four sides of the rectangle (x0, y0), (x1, y1), counter-clockwise or
\* clockwise.
RectSides(x0, y0, x1, y1, ccw) ==
    IF ccw
    THEN << <<Vec(x0, y0), Vec(x1, y0)>>, <<Vec(x1, y0), Vec(x1, y1)>>,
            <<Vec(x1, y1), Vec(x0, y1)>>, <<Vec(x0, y1), Vec(x0, y0)>> >>
    ELSE << <<Vec(x0, y0), Vec(x0, y1)>>, <<Vec(x0, y1), Vec(x1, y1)>>,
            <<Vec(x1, y1), Vec(x1, y0)>>, <<Vec(x1, y0), Vec(x0, y0)>> >>

\* The points the containment functions are called on.
GridPoints == { Vec(x, y) : x \in -1..6, y \in -1..6 }

\* Calls is_point_inside_segments(point, segments) on an axis-aligned rectangle.
InsideSegmentsCalls ==
    { [fn |-> "is_point_inside_segments", point |-> Vec(x, y),
       segments |-> RectSides(r[1], r[2], r[3], r[4], ccw), rect |-> r] :
        x \in -1..4, y \in -1..4, ccw \in BOOLEAN,
        r \in { <<x0, y0, x1, y1>> : x0 \in 0..1, y0 \in 0..1, x1 \in 2..3, y1 \in 2..3 } }

\* The square 0..5 with the holes 1..2 x 1..2 and 3..4 x 2..4.
TwoHolePoly ==
    PolygonWithHoles(RectLine(0, 0, 5, 5), <<RectLine(1, 1, 2, 2), RectLine(3, 2, 4, 4)>>)

\* The L-shaped outline with the hole 1..2 x 1..4.
LHolePoly == PolygonWithHoles(LPoly.outline, <<RectLine(1, 1, 2, 4)>>)

\* The square 1..4 with a hole 3..6 x 2..3 that reaches out of it.
OverhangPoly == PolygonWithHoles(RectLine(1, 1, 4, 4), <<RectLine(3, 2, 6, 3)>>)

\* Calls is_point_inside_polygon_with_holes(point, poly_with_holes).
InsidePolygonCalls ==
    { [fn |-> "is_point_inside_polygon_with_holes", point |-> p, poly |-> poly] :
        p \in GridPoints,
        poly \in { HolePoly, StripPoly, LPoly, TwoHolePoly, LHolePoly, OverhangPoly,
                   EmptyPoly } }

\* Calls point_segment_distance(p, a, b).
SegmentDistanceCalls ==
    { [fn |-> "point_segment_distance", p |-> Vec(x, y), a |-> ab[1], b |-> ab[2]] :
        x \in -2..5, y \in -2..5,
        ab \in { <<Vec(0, 0), Vec(0, 0)>>, <<Vec(1, 2), Vec(1, 2)>>,
                 <<Vec(0, 0), Vec(3, 0)>>, <<Vec(1, 3), Vec(1, 0)>>,
                 <<Vec(0, 0), Vec(3, 1)>>, <<Vec(0, 0), Vec(2, 2)>>,
                 <<Vec(3, 0), Vec(0, 4)>>, <<Vec(4, 2), Vec(0, 0)>>,
                 <<Vec(-1, 3), Vec(2, -1)>> } }

\* The lattice points at distance 5 from the origin.
Radius5 ==
    { v \in { Vec(x, y) : x \in -5..5, y \in -5..5 } : LenSq(v) = 25 }

\* An ArcTrack with a defined centre, from centre + s to centre + e, counter-
\* clockwise or clockwise.  arc.angle() is the sweep from start to end; for a
\* clockwise arc the library's answer is taken to be either the signed sweep
\* (a negative angle) or its magnitude.
Arc(center, s, e, ccw, signed) ==
    [start |-> VAdd(center, s), end |-> VAdd(center, e), center |-> center,
     radius |-> ISqrt(LenSq(s)), ccw |-> ccw,
     angle |-> IF ccw THEN Turn(s, e, FALSE)
               ELSE IF signed THEN Turn(e, s, TRUE)
               ELSE Turn(e, s, FALSE)]

\* An ArcTrack whose centre is defined and whose angle() is None.
ArcNoAngle(center, s, e) ==
    [start |-> VAdd(center, s), end |-> VAdd(center, e), center |-> center,
     radius |-> ISqrt(LenSq(s)), ccw |-> TRUE]

\* An ArcTrack whose three points are collinear (no centre).
ArcFlat(a, b) == [start |-> a, end |-> b]

ArcCenters == { Vec(0, 0), Vec(1, -2) }

Arcs ==
    { Arc(c, s, e, d[1], d[2]) :
        c \in ArcCenters, s \in { Vec(5, 0), Vec(3, 4), Vec(0, -5) }, e \in Radius5,
        d \in { <<TRUE, TRUE>>, <<FALSE, TRUE>>, <<FALSE, FALSE>> } }
    \cup { ArcNoAngle(Vec(0, 0), Vec(5, 0), e) : e \in { Vec(0, 5), Vec(-5, 0) } }
    \cup { ArcFlat(Vec(0, 0), b) : b \in { Vec(5, 0), Vec(3, 4), Vec(0, 0) } }

\* Calls point_arc_distance(p, arc): the points at whole distances 0, 5 and
\* 10 from the centre of the arc (from the origin for an arc without one).
ArcDistanceCalls ==
    { [fn |-> "point_arc_distance", arc |-> arc,
       p |-> VAdd(IF ArcHasCenter(arc) THEN arc.center ELSE Vec(0, 0),
                  Vec(k * u.x, k * u.y))] :
        arc \in { a \in Arcs : ~ArcHasCenter(a) \/ a.start # a.end },
        u \in Radius5, k \in 0..2 }

\* An arc node with a centre: start angle and sweep in whole degrees.
ArcNode(center, radius, start_angle, angle) ==
    [start |-> Vec(Trunc(center.x * 100000 + radius * CosRat(start_angle, 1), 100000),
                   Trunc(center.y * 100000 + radius * SinRat(start_angle, 1), 100000)),
     center |-> center, radius |-> radius, start_angle |-> start_angle, angle |-> angle]

\* The sweeps of the arc nodes, in degrees.  On these arcs the table of sines
\* gives the points the floating-point computation gives.
Sweeps == { 1, 4, 9, 10, 19, 20, 24, 25, 28, 29, 30, 36, 45, 90, 180, 270, 360,
            -4, -24, -90, -355 }

ArcNodes ==
    { ArcNode(c, r, s, a) :
        c \in { Vec(0, 0), Vec(10, -20) }, r \in { 50, 100 }, s \in { 7, 101, 203 },
        a \in Sweeps }

\* Calls get_polygon_segments(poly): an arc alone, an arc between two points
\* (open, or closed into a ring), an arc without a centre, and point nodes.
PolygonSegmentsCalls ==
    { [fn |-> "get_polygon_segments", poly |-> PolyLine(<<arc>>, FALSE)] : arc \in ArcNodes }
    \cup { [fn |-> "get_polygon_segments",
            poly |-> PolyLine(<<Vec(0, 0), arc, Vec(0, 100)>>, closed)] :
             arc \in ArcNodes, closed \in BOOLEAN }
    \cup { [fn |-> "get_polygon_segments",
            poly |-> PolyLine(<<Vec(0, 0), [start |-> Vec(50, 0)], Vec(0, 100)>>, closed)] :
             closed \in BOOLEAN }
    \cup { [fn |-> "get_polygon_segments", poly |-> PolyLine(nodes, closed)] :
             nodes \in { <<>>, <<Vec(0, 0)>>, <<Vec(0, 0), Vec(4, 0), Vec(4, 4)>> },
             closed \in BOOLEAN }

\* Simple rings whose vertices lie on the rows of the points tested: a
\* diamond, a triangle, a square with a notch, an L and a zigzag.
Rings ==
    { <<Vec(2, 0), Vec(4, 2), Vec(2, 4), Vec(0, 2)>>,
      <<Vec(0, 0), Vec(4, 0), Vec(2, 2)>>,
      <<Vec(0, 0), Vec(4, 0), Vec(4, 4), Vec(2, 2), Vec(0, 4)>>,
      <<Vec(0, 0), Vec(4, 0), Vec(4, 2), Vec(2, 2), Vec(2, 4), Vec(0, 4)>>,
      <<Vec(0, 1), Vec(1, 3), Vec(2, 1), Vec(3, 3), Vec(4, 1), Vec(4, 5), Vec(0, 5)>>,
      <<Vec(0, 2), Vec(2, 0), Vec(5, 3), Vec(3, 5), Vec(2, 4), Vec(3, 3), Vec(2, 2), Vec(1, 3)>> }

\* Calls is_point_inside_segments(point, segments) on the segments of a ring,
\* taken in either direction.
RingSegmentsCalls ==
    { [fn |-> "is_point_inside_segments", point |-> Vec(x, y),
       segments |-> get_polygon_segments(PolyLine(
           IF fwd THEN r ELSE [k \in 1..Len(r) |-> r[Len(r) + 1 - k]], TRUE))] :
        x \in -1..6, y \in -1..6, r \in Rings, fwd \in BOOLEAN }

GeometryCalls ==
    InsideSegmentsCalls \cup InsidePolygonCalls \cup SegmentDistanceCalls
        \cup ArcDistanceCalls \cup PolygonSegmentsCalls \cup RingSegmentsCalls

CallInsideSegments ==
    /\ pc = "idle"
    /\ tool = "geometry"
    /\ params.fn = "is_point_inside_segments"
    /\ result' = Value(is_point_inside_segments(params.point, params.segments))
    /\ pc' = "done"
    /\ UNCHANGED << tool, debug_mode, board, params, ctx, gi, gj, candidate_positions, ci,
                    validated_points, items_to_create, verdicts, calls, coords, current,
                    previous >>

CallInsidePolygon ==
    /\ pc = "idle"
    /\ tool = "geometry"
    /\ params.fn = "is_point_inside_polygon_with_holes"
    /\ result' = Value(is_point_inside_polygon_with_holes(params.point, params.poly))
    /\ pc' = "done"
    /\ UNCHANGED << tool, debug_mode, board, params, ctx, gi, gj, candidate_positions, ci,
                    validated_points, items_to_create, verdicts, calls, coords, current,
                    previous >>

CallSegmentDistance ==
    /\ pc = "idle"
    /\ tool = "geometry"
    /\ params.fn = "point_segment_distance"
    /\ result' = Value(point_segment_distance(params.p, params.a, params.b))
    /\ pc' = "done"
    /\ UNCHANGED << tool, debug_mode, board, params, ctx, gi, gj, candidate_positions, ci,
                    validated_points, items_to_create, verdicts, calls, coords, current,
                    previous >>

CallArcDistance ==
    /\ pc = "idle"
    /\ tool = "geometry"
    /\ params.fn = "point_arc_distance"
    /\ result' = Value(point_arc_distance(params.p, params.arc))
    /\ pc' = "done"
    /\ UNCHANGED << tool, debug_mode, board, params, ctx, gi, gj, candidate_positions, ci,
                    validated_points, items_to_create, verdicts, calls, coords, current,
                    previous >>

CallPolygonSegments ==
    /\ pc = "idle"
    /\ tool = "geometry"
    /\ params.fn = "get_polygon_segments"
    /\ result' = Value(get_polygon_segments(params.poly))
    /\ pc' = "done"
    /\ UNCHANGED << tool, debug_mode, board, params, ctx, gi, gj, candidate_positions, ci,
                    validated_points, items_to_create, verdicts, calls, coords, current,
                    previous >>

\* One call of a function of stitching_utils.py, on any of the inputs.
InitGeometry ==
    /\ tool = "geometry"
    /\ debug_mode = FALSE
    /\ board = Board(<<>>, <<>>, <<>>)
    /\ params \in GeometryCalls
    /\ pc = "idle"
    /\ ctx = NoCtx
    /\ gi = 0
    /\ gj = 0
    /\ candidate_positions = <<>>
    /\ ci = 1
    /\ validated_points = <<>>
    /\ items_to_create = <<>>
    /\ verdicts = <<>>
    /\ calls = <<>>
    /\ result = NoResult
    /\ coords = [y |-> <<>>, x |-> <<>>]
    /\ current = 0
    /\ previous = [ran |-> FALSE, accepted |-> <<>>]

NextGeometry ==
    \/ CallInsideSegments
    \/ CallInsidePolygon
    \/ CallSegmentDistance
    \/ CallArcDistance
    \/ CallPolygonSegments

SpecGeometry == InitGeometry /\ [][NextGeometry]_vars

(***************************************************************************)
(* Properties.                                                             *)
(***************************************************************************)
SpacingVerdict == "Spacing conflict with new via"

\* The run is one of a dialog and has passed its set-up.
DialogRun(tools) == tool \in tools /\ ctx # NoCtx

\* The candidates the resolver has gone through so far.
Processed == 1..Len(verdicts)

ObstacleVerdict(k) == verdicts[k] # "" /\ verdicts[k] # SpacingVerdict

\* C1: in perform_stitching, perform_fencing and the older perform_stitching,
\* after any prefix of the candidates, any two distinct points of the accepted
\* list are at least spacing apart, with jitter and debug mode on or off.
C1_PairwiseSpacing ==
    DialogRun({"stitch", "fence", "old"}) =>
        \A i, j \in 1..Len(validated_points) :
            i # j => \/ ctx.spacing <= 0
                     \/ DistSq(validated_points[i], validated_points[j])
                            >= ctx.spacing * ctx.spacing

\* A debug-mode stitching run has rejected a candidate for spacing while it
\* holds two accepted points.
C1_Witness ==
    /\ DialogRun({"stitch"})
    /\ debug_mode
    /\ Len(validated_points) >= 2
    /\ \E k \in Processed : verdicts[k] = SpacingVerdict

\* The obstacle carries the run's target net.
OnTargetNet(obs) ==
    ctx.target_net # None /\ obs.net \notin {None, ""} /\ obs.net = ctx.target_net

\* A via of the run at pos (for the zone it stitches) is nearer to the obstacle
\* than via_radius + obstacle_half_width + clearance, the obstacle being one
\* the layer filter keeps.
TooClose(pos, zone, obs) ==
    IF tool = "fence"
    THEN DLess(FenceObstacleDist(pos, obs.item),
               ctx.via_size + ItemWidth(obs.item) + 2 * ctx.clearance)
    ELSE /\ ~LayerSkipped(zone, ctx.layers_only, obs.item)
         /\ DLess(ObstacleDist(pos, obs.item),
                  ctx.via_size + ObstacleWidth(obs.item) + 2 * ctx.clearance)

ObstacleSet == {ctx.obstacles[n] : n \in 1..Len(ctx.obstacles)}

\* Every via in items_to_create comes from a candidate that clears every
\* obstacle not on the target net.
SubmittedViasClear ==
    \A n \in 1..Len(items_to_create) :
        items_to_create[n].kind = "Via" =>
            \E k \in Processed :
                /\ candidate_positions[k].pos = items_to_create[n].position
                /\ \A obs \in ObstacleSet :
                      OnTargetNet(obs) \/ ~TooClose(candidate_positions[k].pos,
                                                    candidate_positions[k].zone, obs)

\* C2 as stated: every via perform_stitching or perform_fencing submits clears
\* every obstacle that is neither exempt by net nor skipped by layer, whatever
\* the value of debug_mode.
C2_Original == DialogRun({"stitch", "fence"}) => SubmittedViasClear

\* C2 amended: with debug_mode off, every via perform_stitching or
\* perform_fencing submits clears every such obstacle.
C2_Amended == (DialogRun({"stitch", "fence"}) /\ ~debug_mode) => SubmittedViasClear

\* A run without debug mode has rejected a candidate for an obstacle and has
\* submitted a via.
C2_Witness ==
    /\ DialogRun({"stitch"})
    /\ ~debug_mode
    /\ \E k \in Processed : ObstacleVerdict(k)
    /\ \E n \in 1..Len(items_to_create) : items_to_create[n].kind = "Via"

\* C3: an obstacle is skipped in the clearance check iff a target net is set,
\* the obstacle carries a net and the nets are equal: a candidate passes only
\* if every other obstacle is clear of it, however close the exempt ones are,
\* and a candidate rejected for an obstacle is too close to one that is not
\* exempt; an obstacle without a net is never exempt.
C3_NetExemption ==
    DialogRun({"stitch", "fence"}) =>
        \A k \in Processed :
            LET cand == candidate_positions[k]
            IN  /\ verdicts[k] = "" =>
                      \A obs \in ObstacleSet :
                          OnTargetNet(obs) \/ ~TooClose(cand.pos, cand.zone, obs)
                /\ ObstacleVerdict(k) =>
                      \E obs \in ObstacleSet :
                          /\ ~OnTargetNet(obs)
                          /\ TooClose(cand.pos, cand.zone, obs)
                          /\ verdicts[k] = "Conflict: " \o obs.type

\* A candidate has passed although an obstacle on the target net is too close,
\* and another has been rejected for an obstacle without a net.
C3_Witness ==
    /\ DialogRun({"stitch"})
    /\ \E k \in Processed :
          /\ verdicts[k] = ""
          /\ \E obs \in ObstacleSet :
                /\ OnTargetNet(obs)
                /\ TooClose(candidate_positions[k].pos, candidate_positions[k].zone, obs)
    /\ \E k \in Processed :
          /\ ObstacleVerdict(k)
          /\ \E obs \in ObstacleSet :
                /\ obs.net = ""
                /\ TooClose(candidate_positions[k].pos, candidate_positions[k].zone, obs)

\* The Region of a whole-board run: the Edge.Cuts outline itself.
EdgeShapes == SelectSeq(board.shapes, IsEdgeCuts)

\* pos is inside the polygon and at least via_radius + edge_clearance from
\* its outline and its holes.
InsideWithMargin(pos, poly) ==
    /\ is_point_inside_polygon_with_holes(pos, poly)
    /\ ~DLess(point_polygon_distance(pos, poly), ctx.via_size + 2 * ctx.edge_clearance)

\* pos is inside the Region the candidate was generated for, with the margin:
\* a filled polygon of its zone, or the board outline.
InsideRegion(cand) ==
    IF cand.zone.name # ""
    THEN LET polys == FlatPolys(cand.zone.filled_polygons, 1)
         IN  \E n \in 1..Len(polys) : InsideWithMargin(cand.pos, polys[n])
    ELSE \A n \in 1..Len(EdgeShapes) :
            EdgeShapes[n].type = "BoardPolygon" => InsideWithMargin(cand.pos, EdgeShapes[n].poly)

\* C4 as stated: every point accepted by grid stitching, in whole-board mode
\* and in selected-zone mode, is inside the Region (inside the outline, in none
\* of its holes) and at least via_radius + edge_clearance from every outline
\* and hole segment.
C4_AcceptedInsideRegion ==
    DialogRun({"stitch"}) =>
        \A k \in Processed : verdicts[k] = "" => InsideRegion(candidate_positions[k])

SetupFailed == pc = "error" /\ result.kind = "error" /\ ctx = NoCtx

NothingDone == candidate_positions = <<>> /\ items_to_create = <<>> /\ calls = <<>>

\* The whole board is the Region and it has no boundary: no shape on
\* Edge.Cuts, or none with a bounding box.
NoBoundary ==
    /\ params # NoParams
    /\ tool \in {"stitch", "old"}
    /\ tool = "stitch" => ~(params.stitch_selection_only /\ Len(board.selected_zones) > 0)
    /\ \A n \in 1..Len(board.shapes) :
          board.shapes[n].layer = "Edge.Cuts" => ~board.shapes[n].bbox.has

\* C5: a stitching run whose Region has no boundary shapes (no Edge.Cuts shape,
\* or no determinable bounding box) ends in an input error: no candidate is
\* generated and nothing is created.
C5_NoBoundaryIsError == NoBoundary => (SetupFailed /\ NothingDone)

\* A run on a board whose only outline shape has no bounding box has failed.
C5_Witness ==
    /\ NoBoundary
    /\ \E n \in 1..Len(board.shapes) : board.shapes[n].layer = "Edge.Cuts"
    /\ result = Raised("Exception", "Could not determine board bounding box.")

\* The run is over and no candidate passed all the tests.
NoPositionPassed ==
    /\ pc \in {"done", "error"}
    /\ \A k \in Processed : verdicts[k] # ""

C7_NonPositiveSpacingIsError ==
    (tool \in {"stitch", "fence", "old"} /\ params # NoParams /\ params.spacing <= 0) =>
        (SetupFailed /\ NothingDone)

\* C8: in differential-pair mode perform_fencing ends in an input error when
\* the number of selected items is not two (0, 1, 3 or more), before any
\* candidate is generated, and creates nothing.
C8_MalformedPairIsError ==
    (tool = "fence" /\ params # NoParams /\ params.is_diff_pair
        /\ Len(board.selected_items) # 2) =>
        (SetupFailed /\ NothingDone)

\* A differential-pair run on three selected items has been refused for it.
C8_Witness ==
    /\ tool = "fence"
    /\ params # NoParams
    /\ params.is_diff_pair
    /\ Len(board.selected_items) = 3
    /\ params.spacing > 0
    /\ params.num_rows = 0
    /\ result = Raised("ValueError",
                       "Differential pair fencing requires exactly two tracks to be selected.")

\* C9 as stated: no candidate-generation loop runs without bound, spacing <= 0
\* included: a tiling loop over a box of integer extent e visits at most e + 1
\* coordinates, and a dialog's grid indices stay within their ranges.
C9_LoopsBounded ==
    /\ (tool = "cli" /\ ctx # NoCtx) =>
          /\ Len(coords.y) <= ctx.bbox.size.y + 1
          /\ Len(coords.x) <= ctx.bbox.size.x + 1
    /\ (DialogRun({"stitch", "old"}) /\ pc = "generate") =>
          /\ gi \in (0 - ctx.half_rows)..ctx.half_rows
          /\ gj \in (0 - ctx.half_cols)..ctx.half_cols

Reverse(s) == [k \in 1..Len(s) |-> s[Len(s) + 1 - k]]

\* The points of a list, as a set.
PointSet(s) == { s[k] : k \in 1..Len(s) }

\* The run has gone through all its candidates.
ResolverDone == pc = "done" /\ ci > Len(candidate_positions)

\* The verdict of candidate k when the resolver meets it first, with nothing
\* accepted yet.
VerdictAlone(k) ==
    IF tool = "fence" THEN FenceVerdict(candidate_positions[k].pos, <<>>, ctx)
    ELSE StitchVerdict(candidate_positions[k], <<>>, ctx)

\* The accepted list of the same run on the candidates in the opposite order.
ReversedAccepted ==
    IF tool = "fence" THEN FenceResolve(Reverse(candidate_positions), 1, <<>>, ctx)
    ELSE StitchResolve(Reverse(candidate_positions), 1, <<>>, ctx, debug_mode)

\* Candidate k can enter the accepted list: no obstacle stands against it,
\* or the stitching dialog keeps it for the debug marks.
CanEnter(k) == VerdictAlone(k) = "" \/ (tool = "stitch" /\ debug_mode)

\* Candidates i and j are at different places closer than spacing, no
\* obstacle stands against either, and every other candidate that can enter
\* the accepted list is at least spacing away from both.
IsolatedClosePair(i, j) ==
    LET a == candidate_positions[i].pos
        b == candidate_positions[j].pos
    IN  /\ i < j
        /\ a # b
        /\ DistSq(a, b) < ctx.spacing * ctx.spacing
        /\ VerdictAlone(i) = ""
        /\ VerdictAlone(j) = ""
        /\ \A k \in 1..Len(candidate_positions) :
              (k \notin {i, j} /\ CanEnter(k)) =>
                  /\ DistSq(candidate_positions[k].pos, a) >= ctx.spacing * ctx.spacing
                  /\ DistSq(candidate_positions[k].pos, b) >= ctx.spacing * ctx.spacing

HasIsolatedClosePair ==
    \E i, j \in 1..Len(candidate_positions) : IsolatedClosePair(i, j)

\* C11: the resolver of perform_stitching and of perform_fencing depends on
\* the order of its candidates: there are inputs on which the reversed
\* candidate list yields a different accepted set, namely every finished run
\* with two obstacle-free candidates closer than spacing to each other and
\* at least spacing away from every other candidate that can be accepted.
C11_OrderDependent ==
    (DialogRun({"stitch", "fence"}) /\ ResolverDone /\ HasIsolatedClosePair) =>
        PointSet(ReversedAccepted) # PointSet(validated_points)

\* A fencing run of that kind has finished: the earlier candidate of the pair
\* was accepted and the later one rejected for spacing, and the reversed
\* order accepts the later one and not the earlier.
C11_Witness ==
    /\ DialogRun({"fence"})
    /\ ResolverDone
    /\ \E i, j \in 1..Len(candidate_positions) :
          /\ IsolatedClosePair(i, j)
          /\ verdicts[i] = ""
          /\ verdicts[j] = SpacingVerdict
          /\ candidate_positions[j].pos \in PointSet(ReversedAccepted)
          /\ candidate_positions[i].pos \notin PointSet(ReversedAccepted)

RECURSIVE IsSubsequence(_, _, _, _)
\* The points a[i..] occur, in the same order, among the candidates b[j..].
IsSubsequence(a, i, b, j) ==
    IF i > Len(a) THEN TRUE
    ELSE IF j > Len(b) THEN FALSE
    ELSE IF a[i] = b[j].pos THEN IsSubsequence(a, i + 1, b, j + 1)
    ELSE IsSubsequence(a, i, b, j + 1)

\* s is an initial part of t.
IsPrefix(s, t) == Len(s) <= Len(t) /\ \A k \in 1..Len(s) : s[k] = t[k]

\* Point a comes before point b in row-major order: a lower row, or the same
\* row and a lower column.
RowMajorBefore(a, b) == a.y < b.y \/ (a.y = b.y /\ a.x < b.x)

\* Without jitter the candidate list is in row-major order, and with or
\* without it the accepted list is a subsequence of the candidate list.
C12_Ordered ==
    DialogRun({"stitch"}) =>
        /\ ~ctx.random_variance =>
              \A k, l \in 1..Len(candidate_positions) :
                  k < l => RowMajorBefore(candidate_positions[k].pos,
                                          candidate_positions[l].pos)
        /\ IsSubsequence(validated_points, 1, candidate_positions, 1)

\* The raw point of row gi, column gj lies within the jitter of its grid
\* place.
InGridCell(pos) ==
    LET x0 == ctx.center.x + gj * ctx.spacing
                  + (IF gi % 2 # 0 THEN ctx.row_offset ELSE 0)
        y0 == ctx.center.y + gi * ctx.spacing
        mx == IF ctx.random_variance THEN Abs(ctx.max_x_variance) ELSE 0
        my == IF ctx.random_variance THEN Abs(ctx.max_y_variance) ELSE 0
    IN  Abs(pos.x - x0) <= mx /\ Abs(pos.y - y0) <= my

\* One step of perform_stitching: the grid loops start at the most negative
\* row and column and go on to the next column, or to the first column of
\* the next row; a candidate is added at the end of the list and belongs to
\* the grid place just visited; the accepted list only grows at its end.
C12_Step ==
    tool = "stitch" =>
        /\ (pc = "idle" /\ pc' = "generate") =>
              gi' = 0 - ctx'.half_rows /\ gj' = 0 - ctx'.half_cols
        /\ (pc = "generate" /\ pc' = "generate") =>
              \/ gj < ctx.half_cols /\ gi' = gi /\ gj' = gj + 1
              \/ gj = ctx.half_cols /\ gi' = gi + 1 /\ gj' = 0 - ctx.half_cols
        /\ (pc = "generate" /\ pc' # "generate") =>
              gi = ctx.half_rows /\ gj = ctx.half_cols
        /\ IsPrefix(candidate_positions, candidate_positions')
        /\ Len(candidate_positions') <= Len(candidate_positions) + 1
        /\ Len(candidate_positions') > Len(candidate_positions) =>
              pc = "generate" /\ InGridCell(candidate_positions'[Len(candidate_positions')].pos)
        /\ IsPrefix(validated_points, validated_points')

\* C12: perform_stitching generates its grid candidates in row-major order
\* (rows from the most negative index to the most positive, columns likewise
\* within a row), the accepted list is at every moment a subsequence of the
\* candidate list in the same relative order, and an accepted point is never
\* removed or moved.
C12_RowMajorSubsequence == []C12_Ordered /\ [][C12_Step]_vars

\* A finished run without jitter whose candidates span two rows, with a
\* rejected candidate between two accepted ones.
C12_Witness ==
    /\ DialogRun({"stitch"})
    /\ ResolverDone
    /\ ~ctx.random_variance
    /\ \E k, l \in 1..Len(candidate_positions) :
          candidate_positions[k].pos.y < candidate_positions[l].pos.y
    /\ \E k, l, m \in Processed :
          /\ k < l /\ l < m
          /\ verdicts[k] = "" /\ verdicts[l] # "" /\ verdicts[m] = ""
          /\ ~debug_mode
    /\ Len(validated_points) >= 2

\* The call of fn has returned.
Called(fn) == tool = "geometry" /\ pc = "done" /\ params.fn = fn

\* C13: for an axis-aligned rectangle (x0, y0), (x1, y1) given as its four
\* sides, is_point_inside_segments is true for every point strictly inside,
\* false for every point strictly outside, and on the boundary true exactly
\* when x0 <= x < x1 and y0 < y <= y1.
C13_RectangleHalfOpen ==
    (Called("is_point_inside_segments") /\ "rect" \in DOMAIN params) =>
        LET x  == params.point.x
            y  == params.point.y
            x0 == params.rect[1]
            y0 == params.rect[2]
            x1 == params.rect[3]
            y1 == params.rect[4]
            inside  == x0 < x /\ x < x1 /\ y0 < y /\ y < y1
            outside == x < x0 \/ x > x1 \/ y < y0 \/ y > y1
        IN  /\ inside => result.value
            /\ outside => ~result.value
            /\ (~inside /\ ~outside) =>
                  (result.value <=> (x0 <= x /\ x < x1 /\ y0 < y /\ y <= y1))

\* The function has answered true for a point of the left side of a
\* rectangle (the top-left corner).
C13_Witness ==
    /\ Called("is_point_inside_segments")
    /\ "rect" \in DOMAIN params
    /\ params.point = Vec(params.rect[1], params.rect[4])
    /\ result.value

\* The ray cast from the point crosses the ring's sides an odd number of
\* times.
InsideRing(point, ring) ==
    LET segments == get_polygon_segments(ring)
    IN  Cardinality({ k \in 1..Len(segments) :
                        RayCrosses(point, segments[k][1], segments[k][2]) }) % 2 = 1

\* C14: is_point_inside_polygon_with_holes(p, R) is true exactly when p is
\* inside R's outline by ray casting and inside none of R's holes.
C14_InsideOutlineNotInHole ==
    Called("is_point_inside_polygon_with_holes") =>
        (result.value <=>
            /\ InsideRing(params.point, params.poly.outline)
            /\ \A h \in 1..Len(params.poly.holes) :
                  ~InsideRing(params.point, params.poly.holes[h]))

\* The function has answered false for a point that is inside the outline
\* and inside the second of two holes.
C14_Witness ==
    /\ Called("is_point_inside_polygon_with_holes")
    /\ Len(params.poly.holes) = 2
    /\ InsideRing(params.point, params.poly.outline)
    /\ ~InsideRing(params.point, params.poly.holes[1])
    /\ InsideRing(params.point, params.poly.holes[2])
    /\ ~result.value

\* The point's angle lies in the closed span of the arc, from the start
\* angle through the sweep in the direction of the sweep's sign: counter-
\* clockwise from start to end for a positive sweep, clockwise for a
\* negative one.
InArcSpan(p, arc) ==
    LET s  == VSub(arc.start, arc.center)
        e  == VSub(arc.end, arc.center)
        cp == AngleDir(VSub(p, arc.center))
    IN  IF arc.ccw THEN AngleLE(Turn(s, cp, FALSE), Turn(s, e, FALSE))
        ELSE AngleLE(Turn(cp, s, FALSE), Turn(e, s, FALSE))

\* |distance to the centre - radius|, squared.
RadialDistance(p, arc) ==
    LET d == ISqrt(DistSq(p, arc.center))
    IN  (d - arc.radius) * (d - arc.radius)

\* C15: for an arc with a defined centre, point_arc_distance is
\* |distance to centre - radius| exactly when the point's angle lies in the
\* closed span from the start angle to start + sweep taken in the direction
\* of the sweep's sign, for positive and for negative sweep, and otherwise
\* the smaller of the two endpoint distances; for an arc without a centre it
\* is the distance to the segment between the endpoints.
C15_ArcDistanceSpan ==
    Called("point_arc_distance") =>
        LET p   == params.p
            arc == params.arc
        IN  IF ~ArcHasCenter(arc)
            THEN result.value = point_segment_distance(p, arc.start, arc.end)
            ELSE ArcHasAngle(arc) =>
                    result.value =
                        IF InArcSpan(p, arc) THEN RadialDistance(p, arc)
                        ELSE Min2(DistSq(p, arc.start), DistSq(p, arc.end))

\* p lies on the closed segment from a to b.
OnSegment(p, a, b) ==
    LET ab == VSub(b, a)
        ap == VSub(p, a)
    IN  IF a = b THEN p = a
        ELSE Cross(ab, ap) = 0 /\ 0 <= Dot(ap, ab) /\ Dot(ap, ab) <= LenSq(ab)

\* dsq is the squared distance from p to its projection on the line through
\* a and b, clamped to the segment (a # b).
IsClampedProjectionDistance(dsq, p, a, b) ==
    LET ab  == VSub(b, a)
        ap  == VSub(p, a)
        l2  == LenSq(ab)
        dot == Dot(ap, ab)
    IN  IF dot <= 0 THEN dsq = DistSq(p, a)
        ELSE IF dot >= l2 THEN dsq = DistSq(p, b)
        ELSE dsq * l2 = LenSq(ap) * l2 - dot * dot

\* C16: point_segment_distance(p, a, b) is never negative, is 0 exactly when
\* p lies on the closed segment, equals the distance from p to the projection
\* of p clamped to the segment otherwise, and for a = b equals the distance
\* from p to a.
C16_SegmentDistance ==
    Called("point_segment_distance") =>
        LET p == params.p
            a == params.a
            b == params.b
        IN  /\ result.value >= 0
            /\ result.value = 0 <=> OnSegment(p, a, b)
            /\ a = b => result.value = DistSq(p, a)
            /\ a # b => IsClampedProjectionDistance(result.value, p, a, b)

\* The raw grid: rows -half_rows..half_rows and columns -half_cols..half_cols
\* around the centre, odd rows shifted by row_offset, no jitter.
RawGrid ==
    { Vec(ctx.center.x + j * ctx.spacing + (IF i % 2 # 0 THEN ctx.row_offset ELSE 0),
          ctx.center.y + i * ctx.spacing) :
        i \in (0 - ctx.half_rows)..ctx.half_rows,
        j \in (0 - ctx.half_cols)..ctx.half_cols }

\* For every point of the set, its mirror image about the centre is in the set.
SymmetricAbout(points, center) ==
    \A p \in points : Vec(2 * center.x - p.x, 2 * center.y - p.y) \in points

\* The grid loops of perform_stitching run over rows -hr..hr and columns
\* -hc..hc with hr = floor(height / (2 spacing)), hc = floor(width / (2 spacing)),
\* and without jitter the point they visit is the raw grid's.
GridIsRawGrid ==
    /\ ctx.half_rows = ctx.bbox.size.y \div (2 * ctx.spacing)
    /\ ctx.half_cols = ctx.bbox.size.x \div (2 * ctx.spacing)
    /\ pc = "generate" =>
          /\ gi \in (0 - ctx.half_rows)..ctx.half_rows
          /\ gj \in (0 - ctx.half_cols)..ctx.half_cols
          /\ ~ctx.random_variance => GridPoint(ctx, gi, gj, 0, 0) \in RawGrid
    /\ ~ctx.random_variance =>
          \A k \in 1..Len(candidate_positions) : candidate_positions[k].pos \in RawGrid

\* C17 as stated: the raw grid of perform_stitching uses rows -hr..hr and
\* columns -hc..hc around the bounding-box centre, so with jitter disabled the
\* set of raw grid points is symmetric about that centre.
C17_Original ==
    DialogRun({"stitch"}) =>
        /\ GridIsRawGrid
        /\ ~ctx.random_variance => SymmetricAbout(RawGrid, ctx.center)

\* C17, amended: the same with jitter disabled and a row offset of 0; the
\* centre is the one bbox.center() answers.
C17_Amended ==
    DialogRun({"stitch"}) =>
        /\ GridIsRawGrid
        /\ (~ctx.random_variance /\ ctx.row_offset = 0) =>
              SymmetricAbout(RawGrid, ctx.center)

\* A run without jitter and with row offset 0 has gone through a grid of
\* three rows and three columns and kept candidates of two rows.
C17_Witness ==
    /\ DialogRun({"stitch"})
    /\ pc = "filter"
    /\ ~ctx.random_variance
    /\ ctx.row_offset = 0
    /\ ctx.half_rows = 1
    /\ ctx.half_cols = 1
    /\ Cardinality(RawGrid) = 9
    /\ \E k, l \in 1..Len(candidate_positions) :
          candidate_positions[k].pos.y # candidate_positions[l].pos.y

\* The run is perform_stitching on a scenario's board with its parameters.
ScenarioRun(sc) == DialogRun({"stitch"}) /\ board = sc.board /\ params \in sc.params

\* C18: on a 10 mm x 10 mm square Region without obstacles, with via
\* diameter 0.8 mm, spacing 2 mm, edge clearance 0.5 mm, row offset 0 and no
\* jitter, perform_stitching accepts exactly 25 points, those with both
\* coordinates among 1, 3, 5, 7 and 9 mm.
C18_ScenarioB ==
    (ScenarioRun(ScenarioB) /\ pc = "done") =>
        /\ Len(validated_points) = 25
        /\ PointSet(validated_points) =
              { Vec(10 * a, 10 * b) : a, b \in {1, 3, 5, 7, 9} }
        /\ result = Returned(25)

\* The run of the scenario has finished and has gone through 25 candidates.
C18_Witness ==
    /\ ScenarioRun(ScenarioB)
    /\ pc = "done"
    /\ ~debug_mode
    /\ Len(verdicts) = 25
    /\ Len(validated_points) > 0

\* The run's only obstacle is a via at the centre of the Region that is not
\* on the target net, and the Region is the whole board.
CentreViaObstacle ==
    /\ DialogRun({"stitch"})
    /\ Len(ctx.obstacles) = 1
    /\ ctx.obstacles[1].type = "Via"
    /\ ctx.obstacles[1].item.position = ctx.center
    /\ ~OnTargetNet(ctx.obstacles[1])
    /\ \A k \in 1..Len(ctx.stitch_areas) : ctx.stitch_areas[k].zone = NoZone

\* The point is at least R + via_radius + C away from the centre (R the
\* obstacle's radius, C the clearance).
BeyondKeepOut(pos) ==
    LET thr2 == ctx.obstacles[1].item.w + ctx.via_size + 2 * ctx.clearance
    IN  4 * DistSq(pos, ctx.center) >= thr2 * thr2

\* The accepted list of the same run, on the candidates gone through so far,
\* on the board without the obstacle.
AcceptedWithoutObstacle ==
    StitchResolve(SubSeq(candidate_positions, 1, Len(verdicts)), 1, <<>>,
                  [ctx EXCEPT !.obstacles = <<>>], debug_mode)

\* No accepted point is inside the keep-out circle, and every candidate at or
\* beyond it is accepted exactly as without the obstacle.
KeepOutOnly ==
    /\ \A k \in 1..Len(validated_points) : BeyondKeepOut(validated_points[k])
    /\ \A k \in Processed :
          BeyondKeepOut(candidate_positions[k].pos) =>
              (candidate_positions[k].pos \in PointSet(validated_points)
                  <=> candidate_positions[k].pos \in PointSet(AcceptedWithoutObstacle))

\* C19 as stated: with a single via obstacle of radius R (not on the target
\* net) at the Region centre, clearance C and spacing S < R, the accepted set
\* has no point closer than R + via_radius + C to the centre, and every grid
\* candidate at or beyond that distance is accepted exactly as in the same
\* run without the obstacle.
C19_Original == CentreViaObstacle => KeepOutOnly

\* C19, amended: the same with debug mode off and jitter disabled.
C19_Amended ==
    (CentreViaObstacle /\ ~debug_mode /\ ~ctx.random_variance) => KeepOutOnly

\* The run of the scenario with the obstacle wider than the spacing has
\* finished: it rejected candidates for the obstacle, accepted others, one of
\* them exactly at the keep-out distance.
C19_Witness ==
    /\ ScenarioRun(ScenarioC)
    /\ CentreViaObstacle
    /\ ~debug_mode
    /\ pc = "done"
    /\ 2 * ctx.spacing < ctx.obstacles[1].item.w
    /\ \E k \in Processed : verdicts[k] = "Conflict: Via"
    /\ \E k \in 1..Len(validated_points) :
          LET thr2 == ctx.obstacles[1].item.w + ctx.via_size + 2 * ctx.clearance
          IN  4 * DistSq(validated_points[k], ctx.center) = thr2 * thr2

\* The run is a differential-pair fencing with one row around two selected
\* horizontal tracks of the same length, one straight above the other.
ParallelPairRun ==
    /\ tool = "fence"
    /\ pc # "idle"
    /\ params.is_diff_pair
    /\ params.manual
    /\ params.spacing > 0
    /\ params.num_rows = 1
    /\ Len(board.selected_items) = 2
    /\ \A k \in 1..2 : /\ board.selected_items[k].type = "Track"
                       /\ board.selected_items[k].start.y = board.selected_items[k].end.y
    /\ board.selected_items[1].start.x = board.selected_items[2].start.x
    /\ board.selected_items[1].end.x = board.selected_items[2].end.x
    /\ board.selected_items[1].start.x # board.selected_items[1].end.x
    /\ board.selected_items[1].start.y # board.selected_items[2].start.y

\* The offset points of both tracks that do not lie between the two tracks.
OutwardPoints ==
    LET y1  == board.selected_items[1].start.y
        y2  == board.selected_items[2].start.y
        all == generate_candidates(board.selected_items[1], params.spacing, params.distance,
                                   params.num_rows, params.row_offset, <<-1, 1>>)
               \o generate_candidates(board.selected_items[2], params.spacing, params.distance,
                                      params.num_rows, params.row_offset, <<-1, 1>>)
    IN  { p \in PointSet(all) : p.y < Min2(y1, y2) \/ p.y > Max2(y1, y2) }

\* C20: in differential-pair fencing of two parallel equal-length segments
\* (2 mm apart, spacing 1 mm, one row, distance 0.5 mm), the candidates that
\* pass the outer filter are exactly the outward-facing offset points of the
\* two tracks; the inward-facing ones are discarded.
C20_OutwardOnly ==
    ParallelPairRun =>
        /\ pc # "error"
        /\ ctx # NoCtx
        /\ { candidate_positions[k].pos : k \in 1..Len(candidate_positions) } = OutwardPoints

\* The two point sequences of a differential-pair run (lines 291-294).
PairPoints(k) ==
    generate_candidates(board.selected_items[k], params.spacing, params.distance,
                        params.num_rows, params.row_offset, <<-1, 1>>)

\* The run is a differential-pair fencing of two items whose point sequences
\* are both non-empty and of different lengths.
UnequalPairRun ==
    /\ tool = "fence"
    /\ pc # "idle"
    /\ params.is_diff_pair
    /\ params.manual
    /\ params.spacing > 0
    /\ Len(board.selected_items) = 2
    /\ Len(PairPoints(1)) > 0
    /\ Len(PairPoints(2)) > 0
    /\ Len(PairPoints(1)) # Len(PairPoints(2))

\* C21: in differential-pair fencing, when the two point sequences have
\* different lengths, the outer filter is still applied, with the midpoints
\* of the matched prefix (one midpoint for each pair of points at the same
\* index), and is skipped only for the unmatched tail points.
C21_PrefixMidpoints ==
    UnequalPairRun =>
        Len(Midpoints(PairPoints(1), PairPoints(2)))
            = Min2(Len(PairPoints(1)), Len(PairPoints(2)))


\* a <= b * sqrt(l2), for integers a, b and l2 >= 0.
LeRoot(a, b, l2) ==
    IF b >= 0 THEN a <= 0 \/ a * a <= b * b * l2
    ELSE a <= 0 /\ a * a >= b * b * l2

\* |2 * x * sqrt(l2) + c| <= 2 * sqrt(l2): x is within one unit of
\* -c / (2 * sqrt(l2)).
NearRoot(x, c, l2) == LeRoot(c, 2 * (1 - x), l2) /\ LeRoot(0 - c, 2 * (1 + x), l2)

\* The row of `item` at row number r on `side` is the one the claim describes,
\* every coordinate taken to within one unit: round(L / spacing) + 1 points,
\* at least two, point k at the fraction (k-1)/(n-1) of the segment from the
\* first, and the first at the start moved by side * offset along the left
\* normal (-d.y, d.x) / L.
RowAsDescribed(item, r, side) ==
    LET p1      == item.start
        p2      == item.end
        d       == VSub(p2, p1)
        l2      == LenSq(d)
        n       == RoundLenDiv(l2, params.spacing) + 1
        offset2 == 2 * (params.distance + (r - 1) * params.row_offset) + ItemWidth(item)
        row     == SegmentRow(item, params.spacing, offset2, side)
    IN  /\ Len(row) = n
        /\ Len(row) >= 2
        /\ \A k \in 1..Len(row) :
              /\ Abs((Len(row) - 1) * (row[k].x - row[1].x) - (k - 1) * d.x) <= Len(row) - 1
              /\ Abs((Len(row) - 1) * (row[k].y - row[1].y) - (k - 1) * d.y) <= Len(row) - 1
        /\ Len(row) >= 1 =>
              /\ NearRoot(row[1].x - p1.x, side * offset2 * d.y, l2)
              /\ NearRoot(row[1].y - p1.y, 0 - side * offset2 * d.x, l2)

\* The straight items of the selection with a length above 0.
StraightSelected ==
    { k \in 1..Len(board.selected_items) :
        /\ board.selected_items[k].type \in {"Track", "BoardSegment"}
        /\ board.selected_items[k].start # board.selected_items[k].end }

\* C22: for a reference segment of length L > 0, each row r in 1..N and each
\* side, _generate_candidates emits round(L/spacing)+1 evenly spaced points on
\* the parallel line at offset side * (distance + (r-1)*row_offset + width/2),
\* in ascending order along the segment, the first at the offset image of the
\* start, the last at the offset image of the end, never fewer than these two.
C22_RowPoints ==
    (tool = "fence" /\ pc # "idle" /\ params.spacing > 0) =>
        \A k \in StraightSelected : \A r \in 1..params.num_rows : \A side \in {-1, 1} :
            RowAsDescribed(board.selected_items[k], r, side)


\* The call was get_polygon_segments on a PolyLine with exactly one arc node,
\* which has a centre and both angles.
OneArcCall ==
    /\ Called("get_polygon_segments")
    /\ Cardinality({k \in 1..Len(params.poly.nodes) : IsArcNode(params.poly.nodes[k])}) = 1
    /\ \A k \in 1..Len(params.poly.nodes) :
          IsArcNode(params.poly.nodes[k]) => "center" \in DOMAIN params.poly.nodes[k]

\* The sweep of that arc, in degrees.
OneArcSweep ==
    LET k == CHOOSE j \in 1..Len(params.poly.nodes) : IsArcNode(params.poly.nodes[j])
    IN  Abs(params.poly.nodes[k].angle)

\* The sub-segments the arc was cut into: the segments returned, less the
\* joins between nodes and the closing segment.
OneArcSubSegments ==
    Len(result.value) - (Len(params.poly.nodes) - 1)
        - (IF params.poly.closed /\ Len(params.poly.nodes) > 1 THEN 1 ELSE 0)

\* C23 as stated: every arc node with a centre becomes at least 2
\* sub-segments, and the angular step of a sub-segment (the sweep divided by
\* their number) is at most 10 degrees.
C23_Original ==
    OneArcCall => /\ OneArcSubSegments >= 2
                  /\ OneArcSweep <= 10 * OneArcSubSegments

\* C23: get_polygon_segments cuts every arc node with a defined centre into
\* max(2, floor(sweep / 10 degrees)) sub-segments: at least 2 whatever the
\* sweep, with an angular step below 10 degrees for a sweep below 20 degrees
\* and below 15 degrees for every sweep.
C23_Amended ==
    OneArcCall => /\ OneArcSubSegments >= 2
                  /\ OneArcSubSegments = (IF OneArcSweep < 20 THEN 2 ELSE OneArcSweep \div 10)
                  /\ OneArcSweep < 15 * OneArcSubSegments
                  /\ OneArcSweep < 20 => OneArcSweep < 10 * OneArcSubSegments

\* An arc of 4 degrees between two point nodes was cut in two.
C23_Witness ==
    /\ OneArcCall
    /\ OneArcSweep = 4
    /\ OneArcSubSegments = 2
    /\ Len(params.poly.nodes) = 3


\* The side of the line through p with direction (100, 1) on which v lies.
\* No lattice point within 100 columns of p other than p is on this line.
SlantSide(p, v) == Cross(Vec(100, 1), VSub(v, p))

\* The ray from p in the direction (100, 1) crosses the segment from a to b,
\* neither of which is on the ray's line.
SlantCrosses(p, a, b) ==
    /\ SlantSide(p, a) * SlantSide(p, b) < 0
    /\ Sign(Cross(VSub(a, p), VSub(b, a))) = Sign(Cross(Vec(100, 1), VSub(b, a)))

\* p, which is not on the boundary, is inside the polygon: a ray from p that
\* meets no vertex crosses the boundary an odd number of times.
TrulyInside(p, segments) ==
    Cardinality({ k \in 1..Len(segments) :
                    SlantCrosses(p, segments[k][1], segments[k][2]) }) % 2 = 1

\* The call was on a point off the boundary whose horizontal ray (towards
\* larger x) passes through a vertex.
VertexOnRayCall ==
    /\ Called("is_point_inside_segments")
    /\ \A k \in 1..Len(params.segments) :
          ~OnSegment(params.point, params.segments[k][1], params.segments[k][2])
    /\ \E k \in 1..Len(params.segments) :
          /\ params.segments[k][1].y = params.point.y
          /\ params.segments[k][1].x > params.point.x

\* C24: for a simple polygon with integer vertices and a point off its
\* boundary whose horizontal ray passes through one or more vertices,
\* is_point_inside_segments gives the true inside/outside answer.
C24_VertexOnRay ==
    VertexOnRayCall => (result.value <=> TrulyInside(params.point, params.segments))

\* The centre of the diamond, whose ray leaves through the vertex (4, 2), was
\* found inside.
C24_Witness ==
    /\ VertexOnRayCall
    /\ params.point = Vec(2, 2)
    /\ params.segments[1] = <<Vec(2, 0), Vec(4, 2)>>
    /\ Len(params.segments) = 4
    /\ result.value


\* The candidate at pos (for its zone) is at least spacing away from every
\* point of `accepted` and too close to no obstacle off the target net.
SpacedAndClear(pos, zone, accepted) ==
    /\ \A n \in 1..Len(accepted) : DistSq(pos, accepted[n]) >= ctx.spacing * ctx.spacing
    /\ \A obs \in ObstacleSet : OnTargetNet(obs) \/ ~TooClose(pos, zone, obs)

\* One step of a resolver: it moves on by exactly one candidate, the one at
\* ci; the candidate list and the earlier verdicts and accepted points stay
\* as they are; the candidate joins the accepted list iff it is spaced from
\* the accepted points and clear of the obstacles.
ResolverStep ==
    /\ (pc = "filter" /\ ci' # ci) =>
          /\ ci <= Len(candidate_positions)
          /\ ci' = ci + 1
          /\ candidate_positions' = candidate_positions
          /\ Len(verdicts) = ci - 1
          /\ Len(verdicts') = ci
          /\ IsPrefix(verdicts, verdicts')
          /\ validated_points' =
                validated_points
                    \o (IF SpacedAndClear(candidate_positions[ci].pos,
                                          candidate_positions[ci].zone, validated_points)
                        THEN <<candidate_positions[ci].pos>> ELSE <<>>)
    /\ (pc = "filter" /\ ci' = ci) =>
          /\ validated_points' = validated_points
          /\ verdicts' = verdicts
          /\ candidate_positions' = candidate_positions

\* Every point a later candidate is compared with was itself accepted: it is
\* a candidate already examined and found without conflict.
OnlyAcceptedBlock ==
    \A n \in 1..Len(validated_points) :
        \E k \in Processed :
            /\ candidate_positions[k].pos = validated_points[n]
            /\ verdicts[k] = ""

GridSize == (2 * ctx.half_rows + 1) * (2 * ctx.half_cols + 1)

\* C26: with jitter disabled, no grid candidate of perform_stitching is ever
\* rejected by the self-spacing test, whatever the spacing > 0, the row offset
\* and the stitch areas: two distinct grid candidates are at least spacing
\* apart, and a raw grid point gives one candidate at most even when it lies
\* in several overlapping stitch areas.
C26_GridNeverSelfConflicts ==
    (DialogRun({"stitch"}) /\ ~ctx.random_variance) =>
        /\ \A k \in Processed : verdicts[k] # SpacingVerdict
        /\ \A k, l \in 1..Len(candidate_positions) :
              k # l => DistSq(candidate_positions[k].pos, candidate_positions[l].pos)
                           >= ctx.spacing * ctx.spacing
        /\ Len(candidate_positions) <= GridSize

\* A run without jitter and with a row offset has finished on two overlapping
\* stitch areas: a candidate lies in both, and two points were accepted.
C26_Witness ==
    /\ DialogRun({"stitch"})
    /\ ~ctx.random_variance
    /\ ctx.row_offset # 0
    /\ ResolverDone
    /\ Len(validated_points) >= 2
    /\ Len(ctx.stitch_areas) >= 2
    /\ \E k \in 1..Len(candidate_positions) :
          /\ is_point_inside_polygon_with_holes(candidate_positions[k].pos,
                                                ctx.stitch_areas[1].poly)
          /\ is_point_inside_polygon_with_holes(candidate_positions[k].pos,
                                                ctx.stitch_areas[2].poly)
          /\ ~DLess(point_polygon_distance(candidate_positions[k].pos,
                                           ctx.stitch_areas[1].poly),
                    ctx.via_size + 2 * ctx.edge_clearance)
          /\ ~DLess(point_polygon_distance(candidate_positions[k].pos,
                                           ctx.stitch_areas[2].poly),
                    ctx.via_size + 2 * ctx.edge_clearance)


RECURSIVE ValidPositions(_, _, _)
\* The positions that pass the spacing and obstacle tests when the resolver of
\* the run goes through the candidates from k on, the accepted list being
\* `accepted`, with debug mode as given.
ValidPositions(k, accepted, debug) ==
    IF k > Len(candidate_positions) THEN {}
    ELSE LET cand   == candidate_positions[k]
             reason == IF tool = "fence" THEN FenceVerdict(cand.pos, accepted, ctx)
                       ELSE StitchVerdict(cand, accepted, ctx)
             next   == IF tool = "fence" THEN accepted \o FenceAccepted(cand.pos, reason)
                       ELSE accepted \o StitchAccepted(cand, reason, debug)
         IN  (IF reason = "" THEN {cand.pos} ELSE {})
                 \cup ValidPositions(k + 1, next, debug)

\* C27: for the same candidates, obstacles and parameters, the set of
\* positions that pass the spacing and obstacle tests in perform_stitching and
\* in perform_fencing is the same with debug mode on as with debug mode off.
C27_DebugIndependent ==
    (DialogRun({"stitch", "fence"}) /\ ResolverDone) =>
        ValidPositions(1, <<>>, TRUE) = ValidPositions(1, <<>>, FALSE)


\* What the board has seen of the run: nothing until the run has returned,
\* nothing when it returned without an item, and otherwise the three calls,
\* once each and in this order, made after the last candidate was examined.
BoardTouchedAtTheEnd ==
    /\ pc # "done" => calls = <<>>
    /\ pc = "done" =>
          /\ ci > Len(candidate_positions)
          /\ Len(verdicts) = Len(candidate_positions)
          /\ calls = IF items_to_create = <<>> THEN <<>>
                     ELSE << "begin_commit", "create_items", "push_commit" >>

\* The calls on the board change only in the step that ends a run whose
\* resolver has gone through every candidate (or when the run is undone and
\* started again).
CallsOnlyOnReturn ==
    calls' # calls =>
        \/ pc = "filter" /\ pc' = "done" /\ ci > Len(candidate_positions)
                /\ items_to_create' = items_to_create
        \/ pc = "done" /\ calls' = <<>>

\* C28: perform_stitching and perform_fencing touch the board only after
\* filtering has finished: on every input-error path and on an empty result no
\* commit is begun and no item is created, and when there is at least one item
\* the calls occur exactly once each in the order begin_commit, create_items,
\* push_commit.
C28_BoardTouchedLast ==
    /\ [](tool \in {"stitch", "fence"} => BoardTouchedAtTheEnd)
    /\ [][(tool \in {"stitch", "fence"}) => CallsOnlyOnReturn]_vars

\* A fencing run has returned after it rejected a candidate and committed its
\* items.
C28_Witness ==
    /\ tool = "fence"
    /\ pc = "done"
    /\ \E k \in Processed : verdicts[k] # ""
    /\ Len(items_to_create) >= 1
    /\ calls = << "begin_commit", "create_items", "push_commit" >>


\* The run fences one straight item of length above 0 on one side (the item
\* is not on a copper layer), with one row and no obstacle on the board.
OneSideOneRowRun ==
    /\ DialogRun({"fence"})
    /\ ~params.is_diff_pair
    /\ params.num_rows = 1
    /\ Len(board.selected_items) = 1
    /\ board.selected_items[1].type \in {"Track", "BoardSegment"}
    /\ board.selected_items[1].start # board.selected_items[1].end
    /\ ~is_copper_layer(board.selected_items[1].layer)
    /\ ctx.obstacles = <<>>

\* C29: for a single straight reference segment fenced on one side with one
\* row and no obstacles, every candidate of _generate_candidates is accepted
\* by the resolver of perform_fencing, whatever the length and the spacing > 0.
C29_AllAccepted ==
    (OneSideOneRowRun /\ ResolverDone) =>
        /\ \A k \in Processed : verdicts[k] = ""
        /\ Len(validated_points) = Len(candidate_positions)


\* The zone polygons among the obstacles of the older dialog that are not on
\* the target net.
ZonePolygons ==
    { ctx.obstacles[n].item :
        n \in { m \in 1..Len(ctx.obstacles) :
                  /\ ctx.obstacles[m].type = "zone_poly"
                  /\ ~OnTargetNet(ctx.obstacles[m]) } }

\* pos lies inside the polygon's outline, or nearer to it than via_radius +
\* clearance.
InOrNearPolygon(pos, poly) ==
    LET segments == get_polygon_segments(poly.outline)
    IN  \/ InsideRing(pos, poly.outline)
        \/ \E k \in 1..Len(segments) :
              DLess(point_segment_distance(pos, segments[k][1], segments[k][2]),
                    ctx.via_size + 2 * ctx.clearance)

\* C30: in the older stitcher the bounding-box pre-filter of the zone polygon
\* obstacles hides no violation: a candidate inside a non-exempt zone polygon,
\* or closer to its boundary than via_radius + clearance, is rejected,
\* wherever it lies in the polygon's bounding box (corners included).
C30_ZoneViolationRejected ==
    DialogRun({"old"}) =>
        \A k \in Processed :
            (\E poly \in ZonePolygons : InOrNearPolygon(candidate_positions[k].pos, poly))
                => verdicts[k] # ""

====
